---- MODULE Spec2Model ----
(***************************************************************************)
(* The map-building pipeline of the Game of Thrones dashboards:            *)
(*   sameinad.py                   server.map with the kingdom filter      *)
(*   map.py                        server.map of the standalone map app    *)
(*   .github/table_house_kingdom.py  fetch_houses_and_kingdoms (psycopg2)  *)
(* One process runs one of the three scripts (variable app).               *)
(***************************************************************************)
EXTENDS Integers, Sequences, FiniteSets, TLC

\* ------------------------------------------------------------------------
\* Bounds of the model
\* ------------------------------------------------------------------------
\* rows of atlas.locations a database snapshot may hold
MaxLocations == 3
\* rows of atlas.kingdoms a database snapshot may hold
MaxKingdoms == 3
\* rows of atlas.kingdoms in the wide snapshots (colour assignment)
MaxWideKingdoms == 22
\* 32-bit outputs another user of the global generator may consume
MaxOtherDraws == 2
\* changes other clients make to the database while the application runs
MaxDbUpdates == 1

\* ------------------------------------------------------------------------
\* Values of the database columns
\* ------------------------------------------------------------------------
\* a text column holding s
Text(s) == [null |-> FALSE, text |-> s]
\* SQL NULL, read by pandas as None
None == [null |-> TRUE, text |-> ""]
\* Python truthiness of a text column value: None and '' are falsy
Truthy(v) == ~v.null /\ v.text # ""

\* WKT of a point, as ST_AsText prints it: POINT(x y)
PointWkt(x, y) == <<"POINT", <<x, y>>>>
\* WKT of an axis-parallel rectangle: POLYGON((x0 y0,x1 y0,x1 y1,x0 y1,x0 y0))
RectWkt(x0, y0, x1, y1) ==
    <<"POLYGON", <<x0, y0>>, <<x1, y0>>, <<x1, y1>>, <<x0, y1>>, <<x0, y0>>>>
\* a WKT string cut short: the ring is not closed
BadWkt == <<"POLYGON", <<0, 0>>, <<1, 0>>>>

\* the i-th candidate row of atlas.locations
LocationRow(i) ==
    CASE i = 1 -> [gid |-> 1, name |-> "Winterfell", type |-> "Castle",
                   summary |-> Text("Seat of House Stark"), geom_wkt |-> PointWkt(1, 3)]
      [] i = 2 -> [gid |-> 2, name |-> "Oldtown", type |-> "City",
                   summary |-> None, geom_wkt |-> PointWkt(0, 0)]
      [] i = 3 -> [gid |-> 3, name |-> "Harrenhal", type |-> "Ruin",
                   summary |-> Text(""), geom_wkt |-> PointWkt(2, 1)]
      [] i = 4 -> [gid |-> 4, name |-> "Moat Cailin", type |-> "Fortress",
                   summary |-> Text("Gate of the North"), geom_wkt |-> PointWkt(1, 2)]
      [] OTHER -> [gid |-> i, name |-> "Sunspear", type |-> "Castle",
                   summary |-> None, geom_wkt |-> PointWkt(3, 0)]
\* a row of atlas.locations whose geometry text is malformed
BadLocationRow ==
    [gid |-> 99, name |-> "Valyria", type |-> "Ruin",
     summary |-> None, geom_wkt |-> BadWkt]

\* a row of atlas.locations whose type is in neither script's lookup tables
OtherLocationRow ==
    [gid |-> 98, name |-> "The Wall", type |-> "Other",
     summary |-> Text("Shield of the realms of men"), geom_wkt |-> PointWkt(1, 4)]

\* the i-th candidate row of atlas.kingdoms
KingdomRow(i) ==
    CASE i = 1 -> [gid |-> 1, name |-> "The North", claimedby |-> "Stark",
                   summary |-> Text("Largest of the kingdoms"),
                   geom_wkt |-> RectWkt(0, 2, 2, 4)]
      [] i = 2 -> [gid |-> 2, name |-> "Dorne", claimedby |-> "Martell",
                   summary |-> None, geom_wkt |-> RectWkt(1, 0, 3, 1)]
      [] i = 3 -> [gid |-> 3, name |-> "The Reach", claimedby |-> "Tyrell",
                   summary |-> Text(""), geom_wkt |-> RectWkt(0, 0, 2, 2)]
      [] OTHER -> [gid |-> i, name |-> "Gift", claimedby |-> "Night's Watch",
                   summary |-> Text("Land of the Watch"),
                   geom_wkt |-> RectWkt(1, 3, 2, 4)]
\* a row of atlas.kingdoms whose geometry text is malformed
BadKingdomRow ==
    [gid |-> 97, name |-> "Iron Islands", claimedby |-> "Greyjoy",
     summary |-> None, geom_wkt |-> BadWkt]

\* names of the wide snapshots' kingdoms, pairwise distinct
WideNames ==
    <<"The North", "Dorne", "The Reach", "Gift",
      "The Vale", "The Westerlands", "The Riverlands", "The Stormlands",
      "The Crownlands", "Iron Islands", "The Neck", "Bear Island",
      "Skagos", "The Arbor", "Tarth", "Dragonstone",
      "Cape Wrath", "The Fingers", "The Wolfswood", "The Rills",
      "Stony Shore", "Sea Dragon Point", "The Barrowlands", "Crackclaw Point",
      "The Dornish Marches">>
\* the i-th row of atlas.kingdoms in a wide snapshot
WideKingdomRow(i) ==
    [gid |-> i, name |-> WideNames[i], claimedby |-> "Nobody",
     summary |-> None, geom_wkt |-> RectWkt(i % 3, 0, (i % 3) + 1, 1)]

\* rows of got.houses (name, region), the name split into words
HouseRows ==
    << [name |-> <<"House", "Stark">>, region |-> "The North"],
       [name |-> <<"House", "Martell">>, region |-> "Dorne"],
       [name |-> <<"Brave", "Companions">>, region |-> "The North"],
       [name |-> <<"House", "Reed">>, region |-> "The Neck"],
       [name |-> <<"House", "Antaryon">>, region |-> "Braavos"] >>
\* rows of got.characters (id, allegiances): an allegiance is the id of a
\* house, the number of its row in got.houses
CharacterRows ==
    << [id |-> 1, allegiances |-> {1}],
       [id |-> 2, allegiances |-> {1, 2}],
       [id |-> 3, allegiances |-> {}],
       [id |-> 4, allegiances |-> {4}],
       [id |-> 5, allegiances |-> {5}] >>

\* ------------------------------------------------------------------------
\* Sequence helpers (pandas row selection keeps the query order)
\* ------------------------------------------------------------------------
RECURSIVE SetToSeq(_)
\* the elements of a set of integers as an increasing sequence
SetToSeq(S) ==
    IF S = {} THEN <<>>
    ELSE LET lo == CHOOSE x \in S : \A y \in S : x <= y
         IN <<lo>> \o SetToSeq(S \ {lo})
RECURSIVE SumOver(_, _)
\* the sum of f over a finite set S (f a function on S)
SumOver(S, f) ==
    IF S = {} THEN 0
    ELSE LET x == CHOOSE y \in S : TRUE IN f[x] + SumOver(S \ {x}, f)
RECURSIVE Gcd(_, _)
Gcd(a, b) == IF b = 0 THEN a ELSE Gcd(b, a % b)
\* the fraction num/den (den > 0, num >= 0) in lowest terms
Frac(num, den) == LET g == Gcd(num, den) IN [num |-> num \div g, den |-> den \div g]
RECURSIVE Pow2(_)
Pow2(k) == IF k = 0 THEN 1 ELSE 2 * Pow2(k - 1)

\* ------------------------------------------------------------------------
\* Geometry: shapely.wkt.loads, unary_union, centroid
\* ------------------------------------------------------------------------
\* wkt.loads: a point needs one coordinate pair, a polygon a closed ring of
\* at least four positions; anything else raises
wkt_loads(w) ==
    IF w[1] = "POINT" /\ Len(w) = 2
    THEN [ok |-> TRUE, kind |-> "Point", pts |-> <<w[2]>>]
    ELSE IF w[1] = "POLYGON" /\ Len(w) >= 5 /\ w[2] = w[Len(w)]
    THEN [ok |-> TRUE, kind |-> "Polygon", pts |-> SubSeq(w, 2, Len(w) - 1)]
    ELSE [ok |-> FALSE, kind |-> "unparsed", pts |-> <<>>]
\* the class wkt.loads raises on a text that does not parse: shapely 1.x
\* raises WKTReadingError, shapely 2.x GEOSException; the repository pins no
\* version
WktErrors == {"WKTReadingError", "GEOSException"}
\* mutant: a geometry text that does not parse is let through
AllParse_Lenient(rows) == TRUE
\* every geom_wkt of a frame parses
AllParse(rows) == \A k \in 1..Len(rows) : wkt_loads(rows[k].geom_wkt).ok
\* Series.apply(wkt.loads): the frame with its geometry column
WithGeometry(rows) ==
    [k \in 1..Len(rows) |->
        [f \in (DOMAIN rows[k]) \cup {"geometry"} |->
            IF f = "geometry" THEN wkt_loads(rows[k].geom_wkt) ELSE rows[k][f]]]
\* the unit cells covered by a rectangular polygon
Cells(g) ==
    LET xs == {g.pts[k][1] : k \in 1..Len(g.pts)}
        ys == {g.pts[k][2] : k \in 1..Len(g.pts)}
        x0 == CHOOSE x \in xs : \A z \in xs : x <= z
        x1 == CHOOSE x \in xs : \A z \in xs : x >= z
        y0 == CHOOSE y \in ys : \A z \in ys : y <= z
        y1 == CHOOSE y \in ys : \A z \in ys : y >= z
    IN {<<x, y>> : x \in x0..(x1 - 1), y \in y0..(y1 - 1)}
\* GeoSeries.unary_union: the union of the frame's geometries, as the set of
\* covered cells (polygons) and the set of distinct points
unary_union(rows) ==
    [cells |-> UNION {Cells(rows[k].geometry) :
                        k \in {j \in 1..Len(rows) : rows[j].geometry.kind = "Polygon"}},
     points |-> {rows[k].geometry.pts[1] :
                        k \in {j \in 1..Len(rows) : rows[j].geometry.kind = "Point"}}]
\* .centroid: the area-weighted centre of the polygonal part when there is
\* one, else the mean of the points, else POINT EMPTY
centroid(u) ==
    IF u.cells # {}
    THEN LET n == Cardinality(u.cells)
         IN [empty |-> FALSE,
             x |-> Frac(SumOver(u.cells, [c \in u.cells |-> 2 * c[1] + 1]), 2 * n),
             y |-> Frac(SumOver(u.cells, [c \in u.cells |-> 2 * c[2] + 1]), 2 * n)]
    ELSE IF u.points # {}
    THEN LET n == Cardinality(u.points)
         IN [empty |-> FALSE,
             x |-> Frac(SumOver(u.points, [c \in u.points |-> c[1]]), n),
             y |-> Frac(SumOver(u.points, [c \in u.points |-> c[2]]), n)]
    ELSE [empty |-> TRUE, x |-> Frac(0, 1), y |-> Frac(0, 1)]
\* folium.Map(location=[lat, lon]) from a centroid (x = lon, y = lat)
MapLocation(c) == [lat |-> c.y, lon |-> c.x]

\* ------------------------------------------------------------------------
\* numpy's process-wide generator: MT19937, seed, randint
\* ------------------------------------------------------------------------
\* the first 32-bit outputs of MT19937 after init_genrand(seed), each reduced
\* modulo 2^16 (randint below only reads the low 13 bits)
MT19937(seed) ==
    IF seed = 42
    THEN <<56422, 15795, 860, 38158, 62570, 54343, 44732, 11284, 54886, 6265,
           16850, 62678, 37194, 21962, 47191, 60788, 44131, 60263, 16023, 41090,
           1685, 64820, 769, 59735, 62955, 64925, 56101, 2433, 5311, 37819,
           39188, 17568, 53707, 19769, 28693, 6396, 62187, 27480, 65072, 41434,
           25658, 18942, 57001, 18431, 64987, 2747, 58319, 59150>>
    ELSE <<61615, 58564, 49689, 10742, 38467, 53459, 919, 13927, 34140, 60601,
           56718, 2583, 28232, 53593, 61806, 64042, 27354, 45960, 19623, 38886,
           1092, 50608, 55167, 57735, 23468, 56832, 13387, 60215, 59642, 64518,
           7955, 3516, 27692, 44735, 25925, 36664, 33944, 45239, 52149, 64624,
           37627, 48317, 44992, 28962, 8504, 47305, 54734, 31270>>
\* the seed the map build sets
MapSeed == 42
\* a seed another user of the generator sets
OtherSeed == 7
\* np.random.seed(s): the generator restarts at the first output of stream s
np_random_seed(s) == [seed |-> s, pos |-> 0]
RECURSIVE gen_mask(_, _)
\* the smallest 2^k - 1 that is >= rng, searched upwards from m
gen_mask(rng, m) == IF m >= rng THEN m ELSE gen_mask(rng, 2 * m + 1)
\* mutant: high taken as inclusive
randint_range_Inclusive(low, high) == high - low
\* the largest offset randint(low, high) may add to low: high is exclusive
randint_range(low, high) == (high - 1) - low
\* masked rejection accepts a masked output val iff it is at most rng
Accepts(val, rng) == val <= rng
RECURSIVE bounded_masked_uint32(_, _, _)
\* draw 32-bit outputs until the masked value is accepted
bounded_masked_uint32(st, rng, mask) ==
    LET val == MT19937(st.seed)[st.pos + 1] % (mask + 1)
        nxt == [st EXCEPT !.pos = st.pos + 1]
    IN IF Accepts(val, rng) THEN [val |-> val, st |-> nxt]
       ELSE bounded_masked_uint32(nxt, rng, mask)
RECURSIVE randint(_, _, _, _)
\* np.random.randint(low, high, size): size draws from the generator in
\* state st; the values and the generator's state afterwards
randint(low, high, size, st) ==
    IF size = 0 THEN [values |-> <<>>, st |-> st]
    ELSE LET rng == randint_range(low, high)
             d == bounded_masked_uint32(st, rng, gen_mask(rng, 0))
             rest == randint(low, high, size - 1, d.st)
         IN [values |-> <<low + d.val>> \o rest.values, st |-> rest.st]
\* the bounds the map build passes to randint
PopLow == 100
PopHigh == 5000
\* the values randint(low, high) can return over all generator outputs
DrawRange(low, high) ==
    LET rng == randint_range(low, high)
    IN {low + v : v \in {u \in 0..gen_mask(rng, 0) : Accepts(u, rng)}}

\* ------------------------------------------------------------------------
\* Kingdom colours: cm.get_cmap('rainbow', n), colormap(i / n), rgb2hex
\* ------------------------------------------------------------------------
\* rgb2hex of the entries of the n-level rainbow lookup table, n = 1..25
RainbowHex ==
 <<
    <<"#8000ff">>,
    <<"#8000ff", "#ff0000">>,
    <<"#8000ff", "#80ffb4", "#ff0000">>,
    <<"#8000ff", "#2adddd", "#d4dd80", "#ff0000">>,
    <<"#8000ff", "#00b4ec", "#80ffb4", "#ffb462", "#ff0000">>,
    <<"#8000ff", "#1996f3", "#4df3ce", "#b3f396", "#ff964f", "#ff0000">>,
    <<"#8000ff", "#2b7ff6", "#2adddd", "#80ffb4", "#d4dd80", "#ff8042", "#ff0000">>,
    <<"#8000ff", "#376ff9", "#12c7e6", "#5bf9c7", "#a4f99f", "#edc76f", "#ff6f39", "#ff0000">>,
    <<"#8000ff", "#4062fa", "#00b4ec", "#40ecd4", "#80ffb4", "#bfec8e", "#ffb462", "#ff6232", "#ff0000">>,
    <<"#8000ff", "#4757fb", "#0ea4f0", "#2adddd", "#63fbc3", "#9cfba4", "#d4dd80", "#ffa457", "#ff572c", "#ff0000">>,
    <<"#8000ff", "#4c4ffc", "#1996f3", "#1acee3", "#4df3ce", "#80ffb4", "#b3f396", "#e6ce74", "#ff964f", "#ff4f28", "#ff0000">>,
    <<"#8000ff", "#5148fc", "#238af5", "#0cc1e8", "#3ae8d7", "#68fcc1", "#97fca7", "#c5e88a", "#f3c16a", "#ff8a48", "#ff4824", "#ff0000">>,
    <<"#8000ff", "#5542fd", "#2b7ff6", "#00b4ec", "#2adddd", "#55f6ca", "#80ffb4", "#aaf69b", "#d4dd80", "#ffb462", "#ff8042", "#ff4221", "#ff0000">>,
    <<"#8000ff", "#583dfd", "#3177f8", "#0aa9ee", "#1dd2e2", "#45eed2", "#6cfdbf", "#93fda9", "#baee91", "#e2d277", "#ffa95a", "#ff773d", "#ff3d1f", "#ff0000">>,
    <<"#8000ff", "#5b39fd", "#376ff9", "#129ff1", "#12c7e6", "#37e6d8", "#5bf9c7", "#80ffb4", "#a4f99f", "#c8e688", "#edc76f", "#ff9f54", "#ff6f39", "#ff391d", "#ff0000">>,
    <<"#8000ff", "#5e35fe", "#3c68f9", "#1996f3", "#08bee9", "#2adddd", "#4df3ce", "#6efebe", "#90feab", "#b2f396", "#d4dd80", "#f6be68", "#ff964f", "#ff6835", "#ff351b", "#ff0000">>,
    <<"#8000ff", "#6032fe", "#4062fa", "#208ef4", "#00b4ec", "#20d4e1", "#40ecd4", "#60fac5", "#80ffb4", "#9ffaa2", "#bfec8e", "#dfd478", "#ffb462", "#ff8e4a", "#ff6232", "#ff3219", "#ff0000">>,
    <<"#8000ff", "#622ffe", "#445cfb", "#2686f5", "#08acee", "#17cbe4", "#34e4d9", "#52f5cb", "#70febc", "#8efeac", "#acf59a", "#cbe486", "#e8cb72", "#ffac5c", "#ff8646", "#ff5c2f", "#ff2f18", "#ff0000">>,
    <<"#8000ff", "#632cfe", "#4757fb", "#2b7ff6", "#0ea4f0", "#0ec3e7", "#2adddd", "#47f0d1", "#63fbc3", "#80ffb4", "#9cfba4", "#b8f092", "#d4dd80", "#f1c36c", "#ffa457", "#ff8042", "#ff572c", "#ff2c16", "#ff0000">>,
    <<"#8000ff", "#652afe", "#4a53fc", "#2f79f7", "#149df1", "#07bcea", "#22d5e0", "#3cead5", "#57f7c9", "#72febc", "#8dfead", "#a8f79d", "#c3ea8b", "#ddd579", "#f8bc66", "#ff9d53", "#ff793f", "#ff532a", "#ff2a15", "#ff0000">>,
    <<"#8000ff", "#6628fe", "#4c4ffc", "#3374f8", "#1996f3", "#00b4ec", "#1acee3", "#33e3d9", "#4df3ce", "#66fcc2", "#80ffb4", "#99fca6", "#b3f396", "#cce385", "#e6ce74", "#ffb462", "#ff964f", "#ff743c", "#ff4f28", "#ff2814", "#ff0000">>,
    <<"#8000ff", "#6726fe", "#4f4bfc", "#376ff9", "#1e90f4", "#06aded", "#12c7e6", "#2adddd", "#43edd3", "#5bf9c7", "#73febb", "#8cfead", "#a4f99f", "#bced90", "#d4dd80", "#edc76f", "#ffad5d", "#ff904b", "#ff6f39", "#ff4b26", "#ff2613", "#ff0000">>,
    <<"#8000ff", "#6824fe", "#5148fc", "#3a6af9", "#238af5", "#0ca7ef", "#0cc1e8", "#23d7e0", "#3ae8d7", "#51f5cc", "#68fcc1", "#80ffb4", "#97fca7", "#aef599", "#c5e88a", "#dcd77a", "#f3c16a", "#ffa759", "#ff8a48", "#ff6a36", "#ff4824", "#ff2412", "#ff0000">>,
    <<"#8000ff", "#6923fe", "#5345fd", "#3d66fa", "#2784f6", "#11a1f0", "#06baea", "#1cd0e2", "#32e2da", "#48f0d0", "#5efac6", "#74feba", "#8bfeae", "#a1faa1", "#b7f093", "#cde284", "#e3d075", "#f9ba66", "#ffa155", "#ff8445", "#ff6634", "#ff4523", "#ff2311", "#ff0000">>,
    <<"#8000ff", "#6a21fe", "#5542fd", "#4062fa", "#2b7ff6", "#159bf1", "#00b4ec", "#15cae5", "#2adddd", "#40ecd4", "#55f6ca", "#6afdc0", "#80ffb4", "#95fda8", "#aaf69b", "#bfec8e", "#d4dd80", "#eaca71", "#ffb462", "#ff9b52", "#ff8042", "#ff6232", "#ff4221", "#ff2111", "#ff0000">>
 >>
RECURSIVE FloorLog2(_)
\* the largest j with 2^j <= i (i >= 1)
FloorLog2(i) == IF i < 2 THEN 0 ELSE 1 + FloorLog2(i \div 2)
RECURSIVE ShiftFor(_, _, _)
\* the least s >= s0 with n <= i * 2^s: i/n lies in [2^-s, 2^(1-s))
ShiftFor(i, n, s0) == IF n <= i * Pow2(s0) THEN s0 ELSE ShiftFor(i, n, s0 + 1)
RECURSIVE DoubleMod(_, _, _)
\* (r * 2^k) mod n
DoubleMod(r, n, k) == IF k = 0 THEN r % n ELSE DoubleMod((2 * r) % n, n, k - 1)
\* Colormap.__call__ on the float i / n: the lookup index int((i / n) * n) in
\* IEEE double arithmetic (0 <= i < n).  The quotient keeps 53 significant
\* bits; r is the remainder of the long division after them.  Rounded up or
\* exact, the product is at least i.  Rounded down, the product is
\* i - r * 2^(-52-s), which rounds back to i unless it lies more than half a
\* unit in the last place below i; then truncation yields i - 1.
ColormapIndex(i, n) ==
    IF i = 0 THEN 0
    ELSE LET s == ShiftFor(i, n, 1)
             j == FloorLog2(i)
             r == DoubleMod(i, n, 52 + s)
             gap == IF Pow2(j) = i THEN 4 * r ELSE 2 * r
         IN IF r = 0 \/ 2 * r > n THEN i
            ELSE IF gap > Pow2(j + s) THEN i - 1 ELSE i
\* what cm.get_cmap raises where matplotlib has no such function: it was
\* removed in matplotlib 3.9, and the repository pins no version
ColormapErrors == {"AttributeError"}
\* colors.rgb2hex(colormap(i / n)) with colormap = cm.get_cmap('rainbow', n)
KingdomColor(i, n) == RainbowHex[n][ColormapIndex(i, n) + 1]
\* the colour column of the kingdom frame: sameinad.py guards n > 0 and else
\* assigns the scalar 'gray' (to no rows); map.py runs the comprehension
\* over range(n) unguarded
AssignColors(rows, script) ==
    LET n == Len(rows)
    IN IF script = "sameinad" /\ ~(n > 0)
       THEN [k \in 1..n |-> [f \in (DOMAIN rows[k]) \cup {"color"} |->
                                IF f = "color" THEN "gray" ELSE rows[k][f]]]
       ELSE [k \in 1..n |-> [f \in (DOMAIN rows[k]) \cup {"color"} |->
                                IF f = "color" THEN KingdomColor(k - 1, n)
                                ELSE rows[k][f]]]

\* ------------------------------------------------------------------------
\* Settlement populations and radii
\* ------------------------------------------------------------------------
\* the population column: houses_gdf['population'] = randint(...)
WithPopulation(rows, values) ==
    [k \in 1..Len(rows) |-> [f \in (DOMAIN rows[k]) \cup {"population"} |->
                                IF f = "population" THEN values[k] ELSE rows[k][f]]]
\* Series.min() / Series.max(); NaN (here -1) on an empty column
NaN == -1
SeriesMin(rows) ==
    IF rows = <<>> THEN NaN
    ELSE LET ps == {rows[k].population : k \in 1..Len(rows)}
         IN CHOOSE p \in ps : \A q \in ps : p <= q
SeriesMax(rows) ==
    IF rows = <<>> THEN NaN
    ELSE LET ps == {rows[k].population : k \in 1..Len(rows)}
         IN CHOOSE p \in ps : \A q \in ps : p >= q
\* mutant: the offset 5 is dropped
get_radius_NoOffset(pop, pop_min, pop_max) ==
    IF pop_max > pop_min
    THEN Frac((pop - pop_min) * 10, pop_max - pop_min)
    ELSE Frac(10, 1)
\* get_radius: 5 + (pop - pop_min) / (pop_max - pop_min) * 10 as an exact
\* fraction when pop_max > pop_min, else 10
get_radius(pop, pop_min, pop_max) ==
    IF pop_max > pop_min
    THEN Frac(5 * (pop_max - pop_min) + (pop - pop_min) * 10, pop_max - pop_min)
    ELSE Frac(10, 1)

\* ------------------------------------------------------------------------
\* State
\* ------------------------------------------------------------------------
VARIABLES
    app,                \* the script this process runs
    environment,        \* whether the DB_* variables of the process are set
    db,                 \* the database: atlas.locations, atlas.kingdoms, got.houses
    pc,                 \* position of the running handler (or "idle")
    conn,               \* the database connection of the process
    rng,                \* state of numpy's process-wide generator
    selected_kingdoms,  \* input.kingdoms() of the running request
    location_gdf,       \* frame of the locations query
    kingdom_gdf,        \* frame of the kingdoms query
    houses_gdf,         \* frame of the Castle/City query
    center,             \* centroid chosen as the map centre
    m,                  \* the folium map under construction
    output,             \* what the last handler returned or raised
    drawn,              \* history: the population columns assigned so far, each
                        \* with its size and whether it was the first (1) or a later (2)
    data,               \* module-level houses frame (data, data_houses_kingdoms)
    house_counts,       \* module-level table of sameinad.py: houses per kingdom
    df_population,      \* module-level table of sameinad.py: characters per kingdom
    df_area,            \* module-level table of sameinad.py: area per kingdom row
    chart               \* the figure the last chart handler returned

vars == <<app, environment, db, pc, conn, rng, selected_kingdoms, location_gdf, kingdom_gdf,
          houses_gdf, center, m, output, drawn, data,
          house_counts, df_population, df_area, chart>>

\* the five scripts of the repository: "table" is
\* .github/table_house_kingdom.py, "table_house_kingdom" the file of that
\* name at the top of the repository
Apps == {"sameinad", "map", "table", "table_house_kingdom",
         "fjoldi_staerd_konungsriki"}
\* sameinad.py's kingdom_list, the choices of the kingdom selector (as a set:
\* their order only arranges the selector): the kingdoms of the population
\* table and of the houses table, so a choice need not name a map kingdom
kingdom_list ==
    IF app = "sameinad"
    THEN {df_population[k].kingdom : k \in 1..Len(df_population)}
         \cup {data[k].KingdomName : k \in 1..Len(data)}
    ELSE {}
\* the values input.kingdoms() can deliver (multiple=True)
Filters == SUBSET kingdom_list
\* the orders in which the server may return the groups of a GROUP BY
\* without ORDER BY; two orders stand for them
GroupOrders == {"ascending", "descending"}

\* rows of atlas.locations whose type is Castle or City (the houses query)
IsSettlement(row) == row.type \in {"Castle", "City"}
\* a wide snapshot's i-th location: settlements with and without a summary
WideLocationRow(i) ==
    [gid |-> i, name |-> WideNames[i],
     type |-> IF i % 2 = 1 THEN "Castle" ELSE "City",
     summary |-> IF i % 2 = 1 THEN None ELSE Text("A seat of power"),
     geom_wkt |-> PointWkt(i % 3, i % 2)]
\* the candidate rows with the indices of S, in index order
LocationRows(S) == LET ix == SetToSeq(S) IN [k \in 1..Len(ix) |-> LocationRow(ix[k])]
KingdomRows(S) == LET ix == SetToSeq(S) IN [k \in 1..Len(ix) |-> KingdomRow(ix[k])]
\* the database snapshots the model starts from
Databases ==
    {[locations |-> LocationRows(S), kingdoms |-> KingdomRows(T),
      houses |-> HouseRows,
      characters |-> CharacterRows, group_order |-> "ascending",
      version |-> 0] :
        S \in SUBSET (1..MaxLocations), T \in SUBSET (1..MaxKingdoms)}
    \cup
    {[locations |-> LocationRows(S) \o <<BadLocationRow>>,
      kingdoms |-> KingdomRows(1..MaxKingdoms), houses |-> HouseRows,
      characters |-> CharacterRows, group_order |-> "ascending",
      version |-> 0] :
        S \in SUBSET (1..MaxLocations)}
    \cup
    {[locations |-> LocationRows(S) \o <<OtherLocationRow>>,
      kingdoms |-> KingdomRows(1..MaxKingdoms), houses |-> HouseRows,
      characters |-> CharacterRows, group_order |-> "ascending",
      version |-> 0] :
        S \in SUBSET (1..MaxLocations)}
    \cup
    {[locations |-> LocationRows(1..MaxLocations),
      kingdoms |-> KingdomRows(T) \o <<BadKingdomRow>>, houses |-> HouseRows,
      characters |-> CharacterRows, group_order |-> "ascending",
      version |-> 0] :
        T \in SUBSET (1..MaxKingdoms)}
    \cup
    {[locations |-> [k \in 1..(n % 6) |-> WideLocationRow(k)],
      kingdoms |-> [k \in 1..n |-> WideKingdomRow(k)], houses |-> HouseRows,
      characters |-> CharacterRows, group_order |-> "ascending",
      version |-> 0] :
        n \in (MaxKingdoms + 1)..MaxWideKingdoms}

\* str.replace("^House ", "", regex=True) on a name given as its words
StripHouse(words) ==
    IF Len(words) > 1 /\ words[1] = "House" THEN Tail(words) ELSE words

\* ------------------------------------------------------------------------
\* Module-level tables of sameinad.py
\* ------------------------------------------------------------------------
\* the CASE of the houses and population queries: region to kingdom
KingdomOfRegion(region) ==
    CASE region \in {"The North", "The Neck", "Beyond the Wall"} -> "The North"
      [] region \in {"The Vale", "Iron Islands", "The Riverlands", "The Westerlands",
                     "The Stormlands", "The Crownlands", "The Reach", "Dorne"} -> region
      [] OTHER -> "Other Regions"
\* the kingdoms the CASE can yield, in sort order
KingdomOrder ==
    <<"Dorne", "Iron Islands", "Other Regions", "The Crownlands", "The North",
      "The Reach", "The Riverlands", "The Stormlands", "The Vale", "The Westerlands">>
Reverse(seq) == [k \in 1..Len(seq) |-> seq[Len(seq) + 1 - k]]
\* a sorted list of group keys in the order the server returns the groups
InGroupOrder(keys, order) == IF order = "ascending" THEN keys ELSE Reverse(keys)
\* sameinad.py's fetch_houses_and_kingdoms()
fetch_houses_and_kingdoms(houses) ==
    [k \in 1..Len(houses) |->
        [HouseName |-> StripHouse(houses[k].name),
         KingdomName |-> KingdomOfRegion(houses[k].region)]]
\* groupby("Kingdom Name").size().reset_index(name='Number of Houses')
HouseCounts(frame) ==
    LET count == [k \in {KingdomOrder[j] : j \in 1..Len(KingdomOrder)} |->
                    Cardinality({i \in 1..Len(frame) : frame[i].KingdomName = k})]
        present == SelectSeq(KingdomOrder, LAMBDA k : count[k] > 0)
    IN [j \in 1..Len(present) |->
          [KingdomName |-> present[j], NumberOfHouses |-> count[present[j]]]]
\* query_population: characters joined to the houses of their allegiances,
\* counted per kingdom, the groups in the given order
PopulationFrame(database, order) ==
    LET count == [k \in {order[j] : j \in 1..Len(order)} |->
                    Cardinality({<<c, h>> \in (1..Len(database.characters))
                                              \X (1..Len(database.houses)) :
                        /\ h \in database.characters[c].allegiances
                        /\ KingdomOfRegion(database.houses[h].region) = k})]
        present == SelectSeq(order, LAMBDA k : count[k] > 0)
    IN [j \in 1..Len(present) |->
          [kingdom |-> present[j], total_population |-> count[present[j]]]]
\* the area on the WGS84 spheroid, in thousandths of a km2 (rounded), of the
\* polygon whose corners are (0, s), (w, s), (w, n), (0, n) in degrees and
\* whose edges are geodesics, at GeodesicRectArea[w][s + 1][n - s] for
\* w = 1..4, s = 0..7, n = s + 1..8; it does not depend on the longitude of
\* the western edge
GeodesicRectArea ==
 <<
    <<<<12308778, 24613907, 36911737, 49198622, 61470917, 73724981, 85957176, 98163872>>,
      <<12305129, 24602959, 36889844, 49162139, 61416203, 73648398, 85855094>>,
      <<12297830, 24584715, 36857010, 49111074, 61343269, 73549965>>,
      <<12286885, 24559180, 36813243, 49045439, 61252134>>,
      <<12272295, 24526359, 36758554, 48965250>>,
      <<12254064, 24486259, 36692955>>,
      <<12232196, 24438891>>,
      <<12206695>>>>,
    <<<<24619444, 49231584, 73829120, 98404753, 122951190, 147461145, 171927340, 196342507>>,
      <<24612141, 49209676, 73785309, 98331746, 122841701, 147307896, 171723063>>,
      <<24597536, 49173169, 73719606, 98229560, 122695755, 147110922>>,
      <<24575633, 49122070, 73632025, 98098219, 122513387>>,
      <<24546437, 49056392, 73522587, 97937754>>,
      <<24509955, 48976150, 73391317>>,
      <<24466195, 48881362>>,
      <<24415167>>>>,
    <<<<36933884, 73856804, 110757796, 147625905, 184450179, 221219681, 257923483, 294550676>>,
      <<36922920, 73823912, 110692020, 147516295, 184285796, 220989599, 257616792>>,
      <<36900992, 73769101, 110593375, 147362877, 184066680, 220693872>>,
      <<36868108, 73692383, 110461884, 147165687, 183792880>>,
      <<36824275, 73593776, 110297579, 146924772>>,
      <<36769502, 73473304, 110100497>>,
      <<36703803, 73330995>>,
      <<36627193>>>>,
    <<<<49253991, 98493343, 147703422, 196869599, 245977257, 295011792, 343958618, 392803169>>,
      <<49239352, 98449431, 147615608, 196723266, 245757802, 294704627, 343549179>>,
      <<49210079, 98376256, 147483914, 196518449, 245465275, 294309826>>,
      <<49166177, 98273835, 147308370, 196255196, 245099748>>,
      <<49107658, 98142193, 147089019, 195933570>>,
      <<49034535, 97981361, 146825912>>,
      <<48946826, 97791377>>,
      <<48844551>>>>
 >>
\* ST_Area(k.geog::geography) / 1000000: the geodesic area of the polygon,
\* its coordinates read as degrees, in km2 as a fraction (to a thousandth)
ST_Area_km2(row) ==
    LET g == wkt_loads(row.geom_wkt)
        xs == {g.pts[k][1] : k \in 1..Len(g.pts)}
        ys == {g.pts[k][2] : k \in 1..Len(g.pts)}
        x0 == CHOOSE x \in xs : \A z \in xs : x <= z
        x1 == CHOOSE x \in xs : \A z \in xs : x >= z
        y0 == CHOOSE y \in ys : \A z \in ys : y <= z
        y1 == CHOOSE y \in ys : \A z \in ys : y >= z
    IN IF g.ok THEN Frac(GeodesicRectArea[x1 - x0][y0 + 1][y1 - y0], 1000)
       ELSE Frac(0, 1000)
\* query_area: one row per row of atlas.kingdoms, The Neck under The North
AreaFrame(kingdoms) ==
    [k \in 1..Len(kingdoms) |->
        [kingdom |-> IF kingdoms[k].name = "The Neck" THEN "The North"
                     ELSE kingdoms[k].name,
         area_km2 |-> ST_Area_km2(kingdoms[k])]]
\* sameinad.py's total_houses: data_houses_kingdoms['House Name'].nunique()
TotalHouses(frame) == Cardinality({frame[k].HouseName : k \in 1..Len(frame)})
\* sameinad.py's total_population: df_population['total_population'].sum()
TotalPopulation(frame) ==
    SumOver(1..Len(frame), [k \in 1..Len(frame) |-> frame[k].total_population])

\* ------------------------------------------------------------------------
\* Module-level tables of fjoldi_staerd_konungsriki.py
\* ------------------------------------------------------------------------
\* the CASE of its population query: region to kingdom label
FjoldiKingdomOfRegion(region) ==
    CASE region \in {"The North", "The Neck", "Beyond the Wall"} -> "Kingdom of the North"
      [] region = "The Vale" -> "Kingdom of the Mountain and the Vale"
      [] region \in {"Iron Islands", "The Riverlands"} ->
            "Kingdom of the Isles and the Riverlands"
      [] region = "The Westerlands" -> "Kingdom of the Rock"
      [] region \in {"The Stormlands", "The Crownlands"} -> "Kingdom of the Stormlands"
      [] region = "The Reach" -> "Kingdom of the Reach"
      [] region = "Dorne" -> "Principality of Dorne"
      [] OTHER -> "Other Regions"
\* the labels the CASE can yield, in sort order
FjoldiOrder ==
    <<"Kingdom of the Isles and the Riverlands", "Kingdom of the Mountain and the Vale",
      "Kingdom of the North", "Kingdom of the Reach", "Kingdom of the Rock",
      "Kingdom of the Stormlands", "Other Regions", "Principality of Dorne">>
\* its query_population: got.characters c JOIN got.houses h ON c.id = h.id,
\* counted per label, the groups in the given order
FjoldiPopulationFrame(database, order) ==
    LET count == [k \in {order[j] : j \in 1..Len(order)} |->
                    Cardinality({c \in 1..Len(database.characters) :
                        /\ database.characters[c].id \in 1..Len(database.houses)
                        /\ FjoldiKingdomOfRegion(
                              database.houses[database.characters[c].id].region) = k})]
        present == SelectSeq(order, LAMBDA k : count[k] > 0)
    IN [j \in 1..Len(present) |->
          [kingdom |-> present[j], total_population |-> count[present[j]]]]
\* its query_area: one row per row of atlas.kingdoms under its own name
FjoldiAreaFrame(kingdoms) ==
    [k \in 1..Len(kingdoms) |->
        [kingdom |-> kingdoms[k].name, area_km2 |-> ST_Area_km2(kingdoms[k])]]

\* no chart rendered yet
NoChart == [name |-> "none", kind |-> "", selection |-> {}, rows |-> <<>>]

NoCenter == [empty |-> TRUE, x |-> Frac(0, 1), y |-> Frac(0, 1)]
NoMap == [location |-> MapLocation(NoCenter), layers |-> <<>>]
NoOutput == [kind |-> "none", error |-> "", map |-> NoMap]
Html(mp) == [kind |-> "html", error |-> "", map |-> mp]
Raised(e) == [kind |-> "error", error |-> e, map |-> NoMap]

\* os.getenv("DB_USER") .. os.getenv("DB_NAME") at the top of a script: the
\* five variables are set, or the process has none of them (each is None)
Environments == {"set", "unset"}
\* what create_engine raises on the URL made of unset variables: the port
\* text "None" is no integer
EngineUrlErrors == {"ValueError"}
\* what a failed query raises out of pd.read_sql / pd.read_sql_query: the
\* SQLAlchemy error itself, or pandas.errors.DatabaseError where pandas
\* (2.2 and later) wraps the errors of execute; the repository pins no version
ConnectErrors == {"OperationalError", "DatabaseError"}
StatementErrors == {"ProgrammingError", "DatabaseError"}
\* the state when a script starts: sameinad.py, fjoldi_staerd_konungsriki.py
\* and the two table scripts have their module to load; map.py does nothing
\* with the database until map() is called
InitWith(snapshots) ==
    /\ app \in Apps
    /\ environment \in Environments
    /\ db \in snapshots
    /\ pc = IF app = "map" THEN "idle" ELSE "load"
    /\ conn = "none"
    /\ rng = np_random_seed(OtherSeed)
    /\ selected_kingdoms = {}
    /\ location_gdf = <<>>
    /\ kingdom_gdf = <<>>
    /\ houses_gdf = <<>>
    /\ center = NoCenter
    /\ m = NoMap
    /\ output = NoOutput
    /\ drawn = {}
    /\ data = <<>>
    /\ house_counts = <<>>
    /\ df_population = <<>>
    /\ df_area = <<>>
    /\ chart = NoChart
Init == InitWith(Databases)

\* ------------------------------------------------------------------------
\* Module load of sameinad.py, fjoldi_staerd_konungsriki.py and
\* table_house_kingdom.py
\* ------------------------------------------------------------------------
\* the scripts whose module reads the database through a SQLAlchemy engine
EngineScripts == {"sameinad", "fjoldi_staerd_konungsriki"}
\* the environment check of either script: a variable is not set
LoadEnvironmentFails ==
    /\ pc = "load"
    /\ app \in EngineScripts
    /\ environment = "unset"
    /\ output' = Raised("ValueError")
    /\ pc' = "failed"
    /\ UNCHANGED <<app, environment, db, conn, rng, selected_kingdoms, location_gdf,
                   kingdom_gdf, houses_gdf, center, m, drawn, data,
                   house_counts, df_population, df_area, chart>>
\* a module-level query raises: the server is unreachable or the statement
\* fails; the import ends there, the names bound so far stay bound
LoadQueryFails ==
    /\ pc \in {"load", "load_population", "load_area"}
    /\ app \in EngineScripts
    /\ environment = "set"
    /\ \/ /\ conn' = "none"
          /\ \E e \in ConnectErrors : output' = Raised(e)
       \/ /\ conn' = "pooled"
          /\ \E e \in StatementErrors : output' = Raised(e)
    /\ pc' = "failed"
    /\ UNCHANGED <<app, environment, db, rng, selected_kingdoms, location_gdf, kingdom_gdf,
                   houses_gdf, center, m, drawn, data,
                   house_counts, df_population, df_area, chart>>
\* sameinad.py: the engine, data_houses_kingdoms = fetch_houses_and_kingdoms()
\* and house_counts
LoadSameinadHouses ==
    /\ pc = "load"
    /\ app = "sameinad"
    /\ environment = "set"
    /\ data' = fetch_houses_and_kingdoms(db.houses)
    /\ house_counts' = HouseCounts(data')
    /\ conn' = "pooled"
    /\ pc' = "load_population"
    /\ UNCHANGED <<app, environment, db, rng, selected_kingdoms, location_gdf, kingdom_gdf,
                   houses_gdf, center, m, output, drawn, df_population,
                   df_area, chart>>
\* sameinad.py: df_population = pd.read_sql(query_population, engine)
LoadSameinadPopulation ==
    /\ pc = "load_population"
    /\ app = "sameinad"
    /\ df_population' =
          PopulationFrame(db, InGroupOrder(KingdomOrder, db.group_order))
    /\ conn' = "pooled"
    /\ pc' = "load_area"
    /\ UNCHANGED <<app, environment, db, rng, selected_kingdoms, location_gdf, kingdom_gdf,
                   houses_gdf, center, m, output, drawn, data, house_counts,
                   df_area, chart>>
\* sameinad.py: df_area = pd.read_sql(query_area, engine)
LoadSameinadArea ==
    /\ pc = "load_area"
    /\ app = "sameinad"
    /\ df_area' = AreaFrame(db.kingdoms)
    /\ conn' = "pooled"
    /\ pc' = "idle"
    /\ UNCHANGED <<app, environment, db, rng, selected_kingdoms, location_gdf, kingdom_gdf,
                   houses_gdf, center, m, output, drawn, data, house_counts,
                   df_population, chart>>
\* fjoldi_staerd_konungsriki.py: the engine and
\* df_population = pd.read_sql(query_population, engine)
LoadFjoldiPopulation ==
    /\ pc = "load"
    /\ app = "fjoldi_staerd_konungsriki"
    /\ environment = "set"
    /\ df_population' =
          FjoldiPopulationFrame(db, InGroupOrder(FjoldiOrder, db.group_order))
    /\ conn' = "pooled"
    /\ pc' = "load_area"
    /\ UNCHANGED <<app, environment, db, rng, selected_kingdoms, location_gdf, kingdom_gdf,
                   houses_gdf, center, m, output, drawn, data, house_counts,
                   df_area, chart>>
\* fjoldi_staerd_konungsriki.py: df_area = pd.read_sql(query_area, engine)
LoadFjoldiArea ==
    /\ pc = "load_area"
    /\ app = "fjoldi_staerd_konungsriki"
    /\ df_area' = FjoldiAreaFrame(db.kingdoms)
    /\ conn' = "pooled"
    /\ pc' = "idle"
    /\ UNCHANGED <<app, environment, db, rng, selected_kingdoms, location_gdf, kingdom_gdf,
                   houses_gdf, center, m, output, drawn, data, house_counts,
                   df_population, chart>>

\* table_house_kingdom.py: fetch_houses_and_kingdoms() builds the engine URL
\* from names the file never defines, so the load raises before any query
LoadTableHouseKingdom ==
    /\ pc = "load"
    /\ app = "table_house_kingdom"
    /\ output' = Raised("NameError")
    /\ pc' = "failed"
    /\ UNCHANGED <<app, environment, db, conn, rng, selected_kingdoms, location_gdf,
                   kingdom_gdf, houses_gdf, center, m, drawn, data,
                   house_counts, df_population, df_area, chart>>

\* fjoldi_staerd_konungsriki.py's population_plot: a bar per row of the table
fjoldi_population_plot ==
    /\ pc = "idle"
    /\ app = "fjoldi_staerd_konungsriki"
    /\ chart' = [name |-> "population_plot", kind |-> "bar", selection |-> {},
                 rows |-> df_population]
    /\ UNCHANGED <<app, environment, db, pc, conn, rng, selected_kingdoms, location_gdf,
                   kingdom_gdf, houses_gdf, center, m, output, drawn, data,
                   house_counts, df_population, df_area>>
\* fjoldi_staerd_konungsriki.py's area_plot: a bar per row of the table
fjoldi_area_plot ==
    /\ pc = "idle"
    /\ app = "fjoldi_staerd_konungsriki"
    /\ chart' = [name |-> "area_plot", kind |-> "bar", selection |-> {},
                 rows |-> df_area]
    /\ UNCHANGED <<app, environment, db, pc, conn, rng, selected_kingdoms, location_gdf,
                   kingdom_gdf, houses_gdf, center, m, output, drawn, data,
                   house_counts, df_population, df_area>>

\* ------------------------------------------------------------------------
\* server.map of sameinad.py and map.py
\* ------------------------------------------------------------------------
\* the framework invokes map(): sameinad.py reads input.kingdoms(); map.py has
\* no selector and creates a fresh engine (an empty pool)
Request(F) ==
    /\ pc = "idle"
    /\ app \in {"sameinad", "map"}
    /\ F \in Filters
    /\ app = "map" => F = {}
    /\ selected_kingdoms' = F
    /\ conn' = IF app = "map" THEN "none" ELSE conn
    /\ location_gdf' = <<>>
    /\ kingdom_gdf' = <<>>
    /\ houses_gdf' = <<>>
    /\ center' = NoCenter
    /\ m' = NoMap
    /\ IF app = "map" /\ environment = "unset"
       THEN /\ \E e \in EngineUrlErrors : output' = Raised(e)
            /\ pc' = "idle"
       ELSE /\ output' = NoOutput
            /\ pc' = "query_locations"
    /\ UNCHANGED <<app, environment, db, rng, drawn, data,
                   house_counts, df_population, df_area, chart>>

\* pd.read_sql_query(query_locations, engine): the pool hands out a
\* connection and takes it back when the query is done
QueryLocations ==
    /\ pc = "query_locations"
    /\ location_gdf' = db.locations
    /\ conn' = "pooled"
    /\ pc' = "query_kingdoms"
    /\ UNCHANGED <<app, environment, db, rng, selected_kingdoms, kingdom_gdf, houses_gdf,
                   center, m, output, drawn, data,
                   house_counts, df_population, df_area, chart>>

QueryKingdoms ==
    /\ pc = "query_kingdoms"
    /\ kingdom_gdf' = db.kingdoms
    /\ conn' = "pooled"
    /\ pc' = "query_houses"
    /\ UNCHANGED <<app, environment, db, rng, selected_kingdoms, location_gdf, houses_gdf,
                   center, m, output, drawn, data,
                   house_counts, df_population, df_area, chart>>

QueryHouses ==
    /\ pc = "query_houses"
    /\ houses_gdf' = SelectSeq(db.locations, IsSettlement)
    /\ conn' = "pooled"
    /\ pc' = "parse"
    /\ UNCHANGED <<app, environment, db, rng, selected_kingdoms, location_gdf, kingdom_gdf,
                   center, m, output, drawn, data,
                   house_counts, df_population, df_area, chart>>

\* a query raises: the server is unreachable (no connection is left) or the
\* statement fails (the connection goes back to the pool); map() propagates
QueryFails ==
    /\ pc \in {"query_locations", "query_kingdoms", "query_houses"}
    /\ \/ /\ conn' = "none"
          /\ \E e \in ConnectErrors : output' = Raised(e)
       \/ /\ conn' = "pooled"
          /\ \E e \in StatementErrors : output' = Raised(e)
    /\ pc' = "idle"
    /\ UNCHANGED <<app, environment, db, rng, selected_kingdoms, location_gdf, kingdom_gdf,
                   houses_gdf, center, m, drawn, data,
                   house_counts, df_population, df_area, chart>>

\* the three apply(wkt.loads) in turn; the first malformed text raises
ParseGeometries ==
    /\ pc = "parse"
    /\ IF AllParse(location_gdf) /\ AllParse(kingdom_gdf) /\ AllParse(houses_gdf)
       THEN /\ location_gdf' = WithGeometry(location_gdf)
            /\ kingdom_gdf' = WithGeometry(kingdom_gdf)
            /\ houses_gdf' = WithGeometry(houses_gdf)
            /\ pc' = "population"
            /\ UNCHANGED output
       ELSE /\ \E e \in WktErrors : output' = Raised(e)
            /\ pc' = "idle"
            /\ UNCHANGED <<location_gdf, kingdom_gdf, houses_gdf>>
    /\ UNCHANGED <<app, environment, db, conn, rng, selected_kingdoms, center, m, drawn, data,
                   house_counts, df_population, df_area, chart>>

\* mutant: the build does not seed the generator
SeedForBuild_Skipped(st) == st
\* the generator after the map build's np.random.seed(42)
SeedForBuild(st) == np_random_seed(MapSeed)
\* np.random.seed(42); houses_gdf['population'] = np.random.randint(100, 5000, size)
AssignPopulation ==
    /\ pc = "population"
    /\ LET d == randint(PopLow, PopHigh, Len(houses_gdf), SeedForBuild(rng))
       IN /\ houses_gdf' = WithPopulation(houses_gdf, d.values)
          /\ rng' = d.st
          /\ drawn' = drawn \cup {[build |-> IF drawn = {} THEN 1 ELSE 2,
                                   size |-> Len(houses_gdf), values |-> d.values]}
    /\ pc' = IF app = "sameinad" THEN "filter" ELSE "colors"
    /\ UNCHANGED <<app, environment, db, conn, selected_kingdoms, location_gdf, kingdom_gdf,
                   center, m, output, data,
                   house_counts, df_population, df_area, chart>>

\* mutant: the selection is ignored
FilterKingdomRows_KeepAll(rows, F) == rows
\* kingdom_gdf[kingdom_gdf['name'].isin(selected_kingdoms)]
FilterKingdomRows(rows, F) == SelectSeq(rows, LAMBDA r : r.name \in F)
\* sameinad.py: restrict the kingdoms to a non-empty selection, else take
\* every kingdom name as the selection
FilterKingdoms ==
    /\ pc = "filter"
    /\ IF selected_kingdoms # {}
       THEN /\ kingdom_gdf' = FilterKingdomRows(kingdom_gdf, selected_kingdoms)
            /\ UNCHANGED selected_kingdoms
       ELSE /\ selected_kingdoms' = {kingdom_gdf[k].name : k \in 1..Len(kingdom_gdf)}
            /\ UNCHANGED kingdom_gdf
    /\ pc' = "colors"
    /\ UNCHANGED <<app, environment, db, conn, rng, location_gdf, houses_gdf, center, m,
                   output, drawn, data,
                   house_counts, df_population, df_area, chart>>

\* the colour column of the kingdom frame; map.py calls cm.get_cmap whatever
\* n is, sameinad.py when n > 0, and the call raises where matplotlib has
\* dropped the function
AssignKingdomColors ==
    /\ pc = "colors"
    /\ \/ /\ kingdom_gdf' = AssignColors(kingdom_gdf, app)
          /\ pc' = "center"
          /\ UNCHANGED output
       \/ /\ app = "map" \/ Len(kingdom_gdf) > 0
          /\ \E e \in ColormapErrors : output' = Raised(e)
          /\ pc' = "idle"
          /\ UNCHANGED kingdom_gdf
    /\ UNCHANGED <<app, environment, db, conn, rng, selected_kingdoms, location_gdf,
                   houses_gdf, center, m, drawn, data,
                   house_counts, df_population, df_area, chart>>

\* mutant: the centre is always taken from the locations
CenterOf_LocationsOnly(script, kingdoms, locations) ==
    centroid(unary_union(locations))
\* the centroid the script takes: sameinad.py prefers the kingdoms and falls
\* back to the locations, map.py always takes the locations
CenterOf(script, kingdoms, locations) ==
    IF script = "sameinad" /\ kingdoms # <<>>
    THEN centroid(unary_union(kingdoms))
    ELSE centroid(unary_union(locations))
\* what reading the coordinates of POINT EMPTY raises: sameinad.py indexes
\* the empty coordinate list; in map.py center.y raises IndexError or yields
\* NaN, which folium.Map rejects with ValueError, depending on the library
EmptyCenterErrors(script) ==
    IF script = "sameinad" THEN {"IndexError"} ELSE {"IndexError", "ValueError"}
\* centre of the map and folium.Map(location=[lat, lon], tiles=None)
ComputeCenter ==
    /\ pc = "center"
    /\ LET c == CenterOf(app, kingdom_gdf, location_gdf)
       IN IF c.empty
          THEN /\ \E e \in EmptyCenterErrors(app) : output' = Raised(e)
               /\ pc' = "idle"
               /\ UNCHANGED <<center, m>>
          ELSE /\ center' = c
               /\ m' = [location |-> MapLocation(c), layers |-> <<>>]
               /\ pc' = "tile"
               /\ UNCHANGED output
    /\ UNCHANGED <<app, environment, db, conn, rng, selected_kingdoms, location_gdf,
                   kingdom_gdf, houses_gdf, drawn, data,
                   house_counts, df_population, df_area, chart>>

\* ------------------------------------------------------------------------
\* Map assembly
\* ------------------------------------------------------------------------
\* the fixed text shown in place of a missing summary
Placeholder == "No summary available."
\* f"{row['summary'] or 'No summary available.'}"
SummaryOrPlaceholder(v) == IF Truthy(v) THEN v.text ELSE Placeholder
\* GeoJsonPopup(fields=[..., 'summary']): the property as the page prints
\* it, null for a missing value
PropertyText(v) == IF v.null THEN "null" ELSE v.text
\* the summary a kingdom polygon's popup shows: sameinad.py lists the raw
\* field, map.py prepares the popup column with the placeholder
KingdomPopupSummary(script, v) ==
    IF script = "sameinad" THEN PropertyText(v) ELSE SummaryOrPlaceholder(v)
\* one feature of the GeoJson layer
KingdomFeature(script, row) ==
    [name |-> row.name,
     fillColor |-> row.color,
     color |-> "black",
     tooltip |-> <<row.name, row.claimedby>>,
     popup |-> [name |-> row.name, claimedby |-> row.claimedby,
                summary |-> KingdomPopupSummary(script, row.summary)]]
\* mutant: a type missing from the colour table is coloured blue
MarkerColor_DefaultBlue(script, type) ==
    IF script = "map" THEN "blue"
    ELSE CASE type = "Castle" -> "red"
           [] type = "City" -> "blue"
           [] type = "Fortress" -> "green"
           [] type = "Keep" -> "orange"
           [] OTHER -> "blue"
\* marker colour by location type: sameinad.py looks the type up with the
\* default 'gray', map.py colours every marker blue
MarkerColor(script, type) ==
    IF script = "map" THEN "blue"
    ELSE CASE type = "Castle" -> "red"
           [] type = "City" -> "blue"
           [] type = "Fortress" -> "green"
           [] type = "Keep" -> "orange"
           [] OTHER -> "gray"
\* marker icon by location type, with each script's default
MarkerIcon(script, type) ==
    IF script = "map"
    THEN CASE type = "Castle" -> "fa-fort-awesome"
           [] type = "City" -> "fa-building"
           [] type = "Landmark" -> "fa-map-pin"
           [] type = "Region" -> "fa-globe"
           [] type = "Ruin" -> "fa-university"
           [] type = "Town" -> "fa-home"
           [] OTHER -> "fa-info-circle"
    ELSE CASE type = "Castle" -> "shield-alt"
           [] type = "City" -> "building"
           [] type = "Fortress" -> "archway"
           [] type = "Keep" -> "home"
           [] OTHER -> "info-circle"
\* [row.geometry.y, row.geometry.x]
PointLocation(g) == [lat |-> g.pts[1][2], lon |-> g.pts[1][1]]
\* one marker of the Locations cluster
LocationMarker(script, row) ==
    [name |-> row.name,
     location |-> PointLocation(row.geometry),
     icon |-> MarkerIcon(script, row.type),
     color |-> MarkerColor(script, row.type),
     popup |-> [name |-> row.name, type |-> row.type,
                summary |-> SummaryOrPlaceholder(row.summary)]]
\* one circle marker of the Houses layer
HouseMarker(row, pop_min, pop_max) ==
    [name |-> row.name,
     location |-> PointLocation(row.geometry),
     radius |-> get_radius(row.population, pop_min, pop_max),
     color |-> "blue",
     popup |-> [name |-> row.name, population |-> row.population,
                type |-> row.type,
                summary |-> SummaryOrPlaceholder(row.summary)]]
Layer(kind, name, items) == [kind |-> kind, name |-> name, items |-> items]
\* mutant: every script adds the marker cluster before the polygons
AfterLayer_ClusterFirst(script, at) ==
    CASE at = "tile" -> "locations"
      [] at = "locations" -> "kingdoms"
      [] at = "kingdoms" -> "houses"
      [] at = "houses" -> "control"
      [] OTHER -> "return"
\* the position after a layer is added: sameinad.py adds the polygons before
\* the marker cluster, map.py the marker cluster before the polygons
AfterLayer(script, at) ==
    IF script = "sameinad"
    THEN CASE at = "tile" -> "kingdoms"
           [] at = "kingdoms" -> "locations"
           [] at = "locations" -> "houses"
           [] at = "houses" -> "control"
           [] OTHER -> "return"
    ELSE CASE at = "tile" -> "locations"
           [] at = "locations" -> "kingdoms"
           [] at = "kingdoms" -> "houses"
           [] at = "houses" -> "control"
           [] OTHER -> "return"
\* .add_to(m)
AddTo(mp, layer) == [mp EXCEPT !.layers = Append(mp.layers, layer)]

\* folium.TileLayer(...).add_to(m)
AddTileLayer ==
    /\ pc = "tile"
    /\ m' = AddTo(m, Layer("TileLayer", "CartoDB", <<>>))
    /\ pc' = AfterLayer(app, "tile")
    /\ UNCHANGED <<app, environment, db, conn, rng, selected_kingdoms, location_gdf,
                   kingdom_gdf, houses_gdf, center, output, drawn, data,
                   house_counts, df_population, df_area, chart>>

\* map.py: kingdom_gdf['tooltip'] and kingdom_gdf['popup'], the two text
\* columns the layer shows
WithTooltipAndPopup(rows) ==
    [k \in 1..Len(rows) |->
        [f \in (DOMAIN rows[k]) \cup {"tooltip", "popup"} |->
            CASE f = "tooltip" -> KingdomFeature("map", rows[k]).tooltip
              [] f = "popup" -> KingdomFeature("map", rows[k]).popup
              [] OTHER -> rows[k][f]]]
\* what adding the Kingdoms layer raises on a frame of no rows, where it
\* raises; the repository pins neither pandas nor folium. map.py: where
\* apply(axis=1) of a frame of no rows gives a frame (pandas probing the
\* function with an empty Series, which the lambdas cannot index), assigning
\* it to the one column 'tooltip' raises ValueError; where pandas probes
\* with a Series indexed by the columns, apply gives an empty Series and the
\* two columns are assigned. Either script: folium.GeoJson tries the
\* style_function on the first feature, IndexError, where folium does not
\* skip that test for a collection of no features
EmptyLayerErrors(script) ==
    IF script = "map" THEN {"ValueError", "IndexError"} ELSE {"IndexError"}
\* what m._repr_html_() raises when the Kingdoms layer has no feature: the
\* tooltip and the popup read the properties of the first feature,
\* IndexError, or find their fields in none, AssertionError, depending on
\* the folium version; the repository pins none
EmptyRenderErrors == {"IndexError", "AssertionError"}
\* folium.GeoJson(kingdom_gdf, name='Kingdoms', ...).add_to(m); map.py first
\* adds its two text columns to the frame. On a frame of no rows either
\* script raises here or adds a layer of no features, depending on the
\* versions of pandas and folium
AddKingdomLayer ==
    /\ pc = "kingdoms"
    /\ \/ /\ kingdom_gdf' = IF app = "map" THEN WithTooltipAndPopup(kingdom_gdf)
                            ELSE kingdom_gdf
          /\ m' = AddTo(m, Layer("GeoJson", "Kingdoms",
                      [k \in 1..Len(kingdom_gdf) |->
                          KingdomFeature(app, kingdom_gdf'[k])]))
          /\ pc' = AfterLayer(app, "kingdoms")
          /\ UNCHANGED output
       \/ /\ Len(kingdom_gdf) = 0
          /\ \E e \in EmptyLayerErrors(app) : output' = Raised(e)
          /\ pc' = "idle"
          /\ UNCHANGED <<kingdom_gdf, m>>
    /\ UNCHANGED <<app, environment, db, conn, rng, selected_kingdoms, location_gdf,
                   houses_gdf, center, drawn, data,
                   house_counts, df_population, df_area, chart>>

\* MarkerCluster(name='Locations').add_to(m) and one Marker per location row
AddLocationMarkers ==
    /\ pc = "locations"
    /\ m' = AddTo(m, Layer("MarkerCluster", "Locations",
                [k \in 1..Len(location_gdf) |-> LocationMarker(app, location_gdf[k])]))
    /\ pc' = AfterLayer(app, "locations")
    /\ UNCHANGED <<app, environment, db, conn, rng, selected_kingdoms, location_gdf,
                   kingdom_gdf, houses_gdf, center, output, drawn, data,
                   house_counts, df_population, df_area, chart>>

\* folium.FeatureGroup(name='Houses').add_to(m) and one CircleMarker per
\* settlement, its radius scaled between the column's minimum and maximum
AddHouseMarkers ==
    /\ pc = "houses"
    /\ LET pop_min == SeriesMin(houses_gdf)
           pop_max == SeriesMax(houses_gdf)
       IN m' = AddTo(m, Layer("FeatureGroup", "Houses",
                [k \in 1..Len(houses_gdf) |->
                    HouseMarker(houses_gdf[k], pop_min, pop_max)]))
    /\ pc' = AfterLayer(app, "houses")
    /\ UNCHANGED <<app, environment, db, conn, rng, selected_kingdoms, location_gdf,
                   kingdom_gdf, houses_gdf, center, output, drawn, data,
                   house_counts, df_population, df_area, chart>>

\* folium.LayerControl().add_to(m)
AddLayerControl ==
    /\ pc = "control"
    /\ m' = AddTo(m, Layer("LayerControl", "", <<>>))
    /\ pc' = AfterLayer(app, "control")
    /\ UNCHANGED <<app, environment, db, conn, rng, selected_kingdoms, location_gdf,
                   kingdom_gdf, houses_gdf, center, output, drawn, data,
                   house_counts, df_population, df_area, chart>>

\* return ui.HTML(m._repr_html_())
Return ==
    /\ pc = "return"
    /\ IF \E n \in 1..Len(m.layers) :
             m.layers[n].kind = "GeoJson" /\ m.layers[n].items = <<>>
       THEN \E e \in EmptyRenderErrors : output' = Raised(e)
       ELSE output' = Html(m)
    /\ pc' = "idle"
    /\ UNCHANGED <<app, environment, db, conn, rng, selected_kingdoms, location_gdf,
                   kingdom_gdf, houses_gdf, center, m, drawn, data,
                   house_counts, df_population, df_area, chart>>

\* rows another client may insert while the scripts run
InsertedLocationRow == LocationRow(MaxLocations + 2)
InsertedKingdomRow == KingdomRow(MaxKingdoms + 1)
\* a sequence without its k-th element
RemoveAt(rows, k) == SubSeq(rows, 1, k - 1) \o SubSeq(rows, k + 1, Len(rows))
HasGid(rows, gid) == \E k \in 1..Len(rows) : rows[k].gid = gid
\* the region another client may move a house to
UpdatedRegion == "The Westerlands"
\* the positions at which a script has a statement on the database ahead
ReadsAhead(script) ==
    CASE script = "sameinad" ->
            {"load", "load_population", "load_area", "idle", "query_locations",
             "query_kingdoms", "query_houses"}
      [] script = "map" ->
            {"idle", "query_locations", "query_kingdoms", "query_houses"}
      [] script = "fjoldi_staerd_konungsriki" -> {"load", "load_area"}
      [] script = "table" -> {"load", "table_query"}
      [] OTHER -> {}
\* another client of the database commits a change: the scripts read the
\* tables with separate statements and no transaction, so a change lands
\* between two requests or between two statements of one request or of one
\* module load; a row of atlas.locations or atlas.kingdoms is deleted or
\* inserted, a location changes its type, or a house its region
DbUpdate ==
    /\ pc \in ReadsAhead(app)
    /\ db.version < MaxDbUpdates
    /\ \/ \E k \in 1..Len(db.locations) :
             db' = [db EXCEPT !.locations = RemoveAt(@, k), !.version = @ + 1]
       \/ /\ ~HasGid(db.locations, InsertedLocationRow.gid)
          /\ db' = [db EXCEPT !.locations = Append(@, InsertedLocationRow),
                              !.version = @ + 1]
       \/ \E k \in 1..Len(db.locations) :
             /\ db.locations[k].type # "Ruin"
             /\ db' = [db EXCEPT !.locations[k].type = "Ruin", !.version = @ + 1]
       \/ \E k \in 1..Len(db.kingdoms) :
             db' = [db EXCEPT !.kingdoms = RemoveAt(@, k), !.version = @ + 1]
       \/ /\ ~HasGid(db.kingdoms, InsertedKingdomRow.gid)
          /\ db' = [db EXCEPT !.kingdoms = Append(@, InsertedKingdomRow),
                              !.version = @ + 1]
       \/ \E k \in 1..Len(db.houses) :
             /\ db.houses[k].region # UpdatedRegion
             /\ db' = [db EXCEPT !.houses[k].region = UpdatedRegion,
                                 !.version = @ + 1]
    /\ UNCHANGED <<app, environment, pc, conn, rng, selected_kingdoms, location_gdf,
                   kingdom_gdf, houses_gdf, center, m, output, drawn, data,
                   house_counts, df_population, df_area, chart>>

\* some other code of the process uses the global generator between two
\* requests: it draws a 32-bit output or seeds the generator itself
OtherRandomUse ==
    /\ pc = "idle"
    /\ app \in {"sameinad", "map"}
    /\ \/ /\ rng.pos < MaxOtherDraws
          /\ rng' = [rng EXCEPT !.pos = rng.pos + 1]
       \/ /\ rng # np_random_seed(OtherSeed)
          /\ rng' = np_random_seed(OtherSeed)
    /\ UNCHANGED <<app, environment, db, pc, conn, selected_kingdoms, location_gdf,
                   kingdom_gdf, houses_gdf, center, m, output, drawn, data,
                   house_counts, df_population, df_area, chart>>

\* ------------------------------------------------------------------------
\* fetch_houses_and_kingdoms of .github/table_house_kingdom.py (module load)
\* ------------------------------------------------------------------------
\* got.houses h JOIN atlas.kingdoms k ON h.region = k.name
JoinHousesKingdoms(houses, kingdoms) ==
    LET Matches(h) == SelectSeq(kingdoms, LAMBDA k : k.name = h.region)
        RowsOf(h) == [j \in 1..Len(Matches(h)) |->
                        [house_name |-> h.name, kingdom_name |-> Matches(h)[j].name]]
        F[i \in 0..Len(houses)] ==
            IF i = 0 THEN <<>> ELSE F[i - 1] \o RowsOf(houses[i])
    IN F[Len(houses)]
\* the cleaned frame under its display column names
CleanFrame(rows) ==
    [k \in 1..Len(rows) |->
        [HouseName |-> StripHouse(rows[k].house_name),
         KingdomName |-> rows[k].kingdom_name]]

\* conn = psycopg2.connect(...)
TableConnect ==
    /\ pc = "load"
    /\ app = "table"
    /\ \/ /\ conn' = "open"
          /\ pc' = "table_query"
          /\ UNCHANGED output
       \/ /\ conn' = "none"
          /\ output' = Raised("OperationalError")
          /\ pc' = "failed"
    /\ UNCHANGED <<app, environment, db, rng, selected_kingdoms, location_gdf, kingdom_gdf,
                   houses_gdf, center, m, drawn, data,
                   house_counts, df_population, df_area, chart>>

\* df = pd.read_sql_query(query, conn): the frame, or the call raises and
\* fetch_houses_and_kingdoms is left at once
TableQuery ==
    /\ pc = "table_query"
    /\ \/ /\ data' = JoinHousesKingdoms(db.houses, db.kingdoms)
          /\ pc' = "table_close"
          /\ UNCHANGED output
       \/ /\ output' = Raised("DatabaseError")
          /\ pc' = "failed"
          /\ UNCHANGED data
    /\ UNCHANGED <<app, environment, db, conn, rng, selected_kingdoms, location_gdf,
                   kingdom_gdf, houses_gdf, center, m, drawn,
                   house_counts, df_population, df_area, chart>>

\* conn.close()
TableClose ==
    /\ pc = "table_close"
    /\ conn' = "closed"
    /\ pc' = "table_clean"
    /\ UNCHANGED <<app, environment, db, rng, selected_kingdoms, location_gdf, kingdom_gdf,
                   houses_gdf, center, m, output, drawn, data,
                   house_counts, df_population, df_area, chart>>

\* strip the "House " prefix, rename the columns, return df
TableClean ==
    /\ pc = "table_clean"
    /\ data' = CleanFrame(data)
    /\ pc' = "loaded"
    /\ UNCHANGED <<app, environment, db, conn, rng, selected_kingdoms, location_gdf,
                   kingdom_gdf, houses_gdf, center, m, output, drawn,
                   house_counts, df_population, df_area, chart>>

\* ------------------------------------------------------------------------
\* Chart handlers of sameinad.py
\* ------------------------------------------------------------------------
\* the choices of input.plot_type
PlotTypes == {"Bar Plot", "Pie Chart"}
\* table[table[column].isin(selected)] if selected else table
FilteredData(table, column, selected) ==
    IF selected # {}
    THEN SelectSeq(table, LAMBDA r : r[column] \in selected)
    ELSE table
\* px.bar(filtered_data, ...) if plot_type == "Bar Plot" else px.pie(...)
Figure(name, plot_type, selected, rows) ==
    [name |-> name,
     kind |-> IF plot_type = "Bar Plot" THEN "bar" ELSE "pie",
     selection |-> selected,
     rows |-> rows]
\* server.total_houses and server.total_population: a number as text
total_houses ==
    /\ pc = "idle"
    /\ app = "sameinad"
    /\ chart' = [name |-> "total_houses", kind |-> "text", selection |-> {},
                 rows |-> <<TotalHouses(data)>>]
    /\ UNCHANGED <<app, environment, db, pc, conn, rng, selected_kingdoms, location_gdf,
                   kingdom_gdf, houses_gdf, center, m, output, drawn, data,
                   house_counts, df_population, df_area>>
total_population ==
    /\ pc = "idle"
    /\ app = "sameinad"
    /\ chart' = [name |-> "total_population", kind |-> "text", selection |-> {},
                 rows |-> <<TotalPopulation(df_population)>>]
    /\ UNCHANGED <<app, environment, db, pc, conn, rng, selected_kingdoms, location_gdf,
                   kingdom_gdf, houses_gdf, center, m, output, drawn, data,
                   house_counts, df_population, df_area>>
\* server.house_count_plot
house_count_plot(selected, plot_type) ==
    /\ pc = "idle"
    /\ app = "sameinad"
    /\ chart' = Figure("house_count_plot", plot_type, selected,
                       FilteredData(house_counts, "KingdomName", selected))
    /\ UNCHANGED <<app, environment, db, pc, conn, rng, selected_kingdoms, location_gdf,
                   kingdom_gdf, houses_gdf, center, m, output, drawn, data,
                   house_counts, df_population, df_area>>
\* server.population_plot
population_plot(selected, plot_type) ==
    /\ pc = "idle"
    /\ app = "sameinad"
    /\ chart' = Figure("population_plot", plot_type, selected,
                       FilteredData(df_population, "kingdom", selected))
    /\ UNCHANGED <<app, environment, db, pc, conn, rng, selected_kingdoms, location_gdf,
                   kingdom_gdf, houses_gdf, center, m, output, drawn, data,
                   house_counts, df_population, df_area>>
\* mutant: the area chart narrows the module-level table itself
area_plot_InPlace(selected, plot_type) ==
    /\ pc = "idle"
    /\ app = "sameinad"
    /\ df_area' = FilteredData(df_area, "kingdom", selected)
    /\ chart' = Figure("area_plot", plot_type, selected, df_area')
    /\ UNCHANGED <<app, environment, db, pc, conn, rng, selected_kingdoms, location_gdf,
                   kingdom_gdf, houses_gdf, center, m, output, drawn, data,
                   house_counts, df_population>>
\* server.area_plot
area_plot(selected, plot_type) ==
    /\ pc = "idle"
    /\ app = "sameinad"
    /\ chart' = Figure("area_plot", plot_type, selected,
                       FilteredData(df_area, "kingdom", selected))
    /\ UNCHANGED <<app, environment, db, pc, conn, rng, selected_kingdoms, location_gdf,
                   kingdom_gdf, houses_gdf, center, m, output, drawn, data,
                   house_counts, df_population, df_area>>

Next ==
    \/ \E F \in Filters : Request(F)
    \/ QueryLocations
    \/ QueryKingdoms
    \/ QueryHouses
    \/ QueryFails
    \/ ParseGeometries
    \/ AssignPopulation
    \/ FilterKingdoms
    \/ AssignKingdomColors
    \/ ComputeCenter
    \/ AddTileLayer
    \/ AddKingdomLayer
    \/ AddLocationMarkers
    \/ AddHouseMarkers
    \/ AddLayerControl
    \/ Return
    \/ LoadEnvironmentFails
    \/ LoadQueryFails
    \/ LoadSameinadHouses
    \/ LoadSameinadPopulation
    \/ LoadSameinadArea
    \/ LoadFjoldiPopulation
    \/ LoadFjoldiArea
    \/ LoadTableHouseKingdom
    \/ fjoldi_population_plot
    \/ fjoldi_area_plot
    \/ TableConnect
    \/ TableQuery
    \/ TableClose
    \/ TableClean

Spec == Init /\ [][Next]_vars

\* the scripts on a database that other clients change: the snapshots with
\* every candidate kingdom and every candidate location, and the changes
\* other clients commit
InitUpdates ==
    /\ Init
    /\ db.locations = LocationRows(1..MaxLocations)
    /\ db.kingdoms = KingdomRows(1..MaxKingdoms)
NextUpdates == Next \/ DbUpdate
SpecUpdates == InitUpdates /\ [][NextUpdates]_vars

\* the scripts in a process whose other code uses the global random
\* generator between requests
NextGenerator == Next \/ OtherRandomUse
SpecGenerator == Init /\ [][NextGenerator]_vars

\* the dashboard with its chart outputs, on a few snapshots: the smallest
\* one with a kingdom named The Neck and the one with empty tables; the
\* population groups in either order
HasNeck(database) ==
    \E k \in 1..Len(database.kingdoms) : database.kingdoms[k].name = "The Neck"
ChartDatabases ==
    {[d EXCEPT !.group_order = o] :
        d \in {e \in Databases :
                 \/ /\ HasNeck(e)
                    /\ \A f \in Databases :
                          HasNeck(f) => Len(e.kingdoms) <= Len(f.kingdoms)
                 \/ e.kingdoms = <<>> /\ e.locations = <<>>},
        o \in GroupOrders}
InitCharts == InitWith(ChartDatabases)
NextCharts ==
    \/ Next
    \/ total_houses
    \/ total_population
    \/ \E selected \in Filters, plot_type \in PlotTypes :
          house_count_plot(selected, plot_type)
    \/ \E selected \in Filters, plot_type \in PlotTypes :
          population_plot(selected, plot_type)
    \/ \E selected \in Filters, plot_type \in PlotTypes :
          area_plot(selected, plot_type)
SpecCharts == InitCharts /\ [][NextCharts]_vars

\* ------------------------------------------------------------------------
\* Properties
\* ------------------------------------------------------------------------
\* positions of map() at which the kingdom filter, the colour assignment and
\* the centre computation of the running build are done
AfterFilter ==
    {"colors", "center", "tile", "kingdoms", "locations", "houses", "control", "return"}
AfterColors == AfterFilter \ {"colors"}
AfterCenter == AfterColors \ {"center"}
Gids(rows) == [k \in 1..Len(rows) |-> rows[k].gid]
LayersOfKind(mp, kind) == SelectSeq(mp.layers, LAMBDA l : l.kind = kind)
LayerKinds(mp) == [k \in 1..Len(mp.layers) |-> mp.layers[k].kind]
IsPrefix(s, t) == Len(s) <= Len(t) /\ s = SubSeq(t, 1, Len(s))
\* the rows of the kingdoms table the selection asks for, in query order
ExpectedKingdoms ==
    IF selected_kingdoms # {}
    THEN SelectSeq(db.kingdoms, LAMBDA r : r.name \in selected_kingdoms)
    ELSE db.kingdoms

\* C1: the kingdom collection the build works on is exactly the rows of the
\* kingdoms query whose name is selected, in query order, or every row when
\* nothing is selected; colours are spread over that collection (an empty
\* selection gives each kingdom the colour of an unfiltered build), the
\* centre of sameinad.py's map is its centroid, and the polygon layer holds
\* one feature per row of it.
C1_FilterSelectsKingdoms ==
    /\ pc \in AfterFilter => Gids(kingdom_gdf) = Gids(ExpectedKingdoms)
    /\ pc \in AfterColors =>
          \A k \in 1..Len(kingdom_gdf) :
              kingdom_gdf[k].color = KingdomColor(k - 1, Len(ExpectedKingdoms))
    /\ (pc \in AfterCenter /\ app = "sameinad" /\ ExpectedKingdoms # <<>>) =>
          m.location = MapLocation(centroid(unary_union(WithGeometry(ExpectedKingdoms))))
    /\ pc \in AfterCenter =>
          \A n \in 1..Len(m.layers) :
              m.layers[n].kind = "GeoJson" =>
                  /\ Len(m.layers[n].items) = Len(ExpectedKingdoms)
                  /\ \A k \in 1..Len(m.layers[n].items) :
                        /\ m.layers[n].items[k].name = ExpectedKingdoms[k].name
                        /\ m.layers[n].items[k].fillColor =
                               KingdomColor(k - 1, Len(ExpectedKingdoms))
\* a finished sameinad.py build that kept one of several kingdoms
C1_Witness ==
    /\ app = "sameinad"
    /\ pc = "return"
    /\ selected_kingdoms = {"The North"}
    /\ Len(db.kingdoms) >= 2
    /\ Len(kingdom_gdf) = 1
    /\ Len(LayersOfKind(m, "GeoJson")) = 1

\* the centre the specification describes: the kingdoms' centroid when the
\* collection is non-empty, else the locations' centroid
KingdomFirstCenter ==
    MapLocation(IF kingdom_gdf # <<>> THEN centroid(unary_union(kingdom_gdf))
                ELSE centroid(unary_union(location_gdf)))
\* C2 as stated: every build centres the map on the kingdoms' centroid when
\* the kingdom collection is non-empty and on the locations' centroid only
\* when it is empty.
C2_Original == pc \in AfterCenter => m.location = KingdomFirstCenter
\* C2 amended: sameinad.py centres the map on the kingdoms' centroid when the
\* (filtered) kingdom collection is non-empty and on the locations' centroid
\* only when it is empty; map.py always centres on the locations' centroid.
C2_CenterByScript ==
    pc \in AfterCenter =>
        /\ app = "sameinad" => m.location = KingdomFirstCenter
        /\ app = "map" => m.location = MapLocation(centroid(unary_union(location_gdf)))
\* a sameinad.py build centred on kingdoms whose centroid is not the locations'
C2_Witness ==
    /\ app = "sameinad"
    /\ pc = "return"
    /\ kingdom_gdf # <<>>
    /\ location_gdf # <<>>
    /\ m.location = MapLocation(centroid(unary_union(kingdom_gdf)))
    /\ m.location # MapLocation(centroid(unary_union(location_gdf)))

\* the layer order of the specification, bottom to top
SpecOrder == <<"TileLayer", "GeoJson", "MarkerCluster", "FeatureGroup", "LayerControl">>
\* the layer order of map.py
ClusterFirstOrder ==
    <<"TileLayer", "MarkerCluster", "GeoJson", "FeatureGroup", "LayerControl">>
\* C3 as stated: in every build the layers are added in the order tiles,
\* kingdom polygons, location cluster, settlement circles, layer control,
\* and a returned map holds all five.
C3_Original ==
    /\ IsPrefix(LayerKinds(m), SpecOrder)
    /\ output.kind = "html" => LayerKinds(output.map) = SpecOrder
\* C3 amended: sameinad.py adds the layers in the order tiles, kingdom
\* polygons, location cluster, settlement circles, layer control; map.py adds
\* the location cluster before the kingdom polygons; the layer control is
\* last in both and a returned map holds all five layers.
C3_LayerOrderByScript ==
    /\ app = "sameinad" =>
          /\ IsPrefix(LayerKinds(m), SpecOrder)
          /\ output.kind = "html" => LayerKinds(output.map) = SpecOrder
    /\ app = "map" =>
          /\ IsPrefix(LayerKinds(m), ClusterFirstOrder)
          /\ output.kind = "html" => LayerKinds(output.map) = ClusterFirstOrder
\* a map returned by sameinad.py with its five layers
C3_Witness ==
    /\ app = "sameinad"
    /\ output.kind = "html"
    /\ LayerKinds(output.map) = SpecOrder

\* C4: no handler has returned or raised while its connection is still
\* open (a connection handed back to the engine's pool counts as released).
C4_ConnectionReleased == pc \in {"idle", "failed", "loaded"} => conn # "open"

\* C5: a build that reaches the centre computation with no kingdom and no
\* location fails with NoGeometryError.
C5_NoGeometryError ==
    [][(pc = "center" /\ kingdom_gdf = <<>> /\ location_gdf = <<>>)
          => output' = Raised("NoGeometryError")]_vars

\* C6: kingdom i of N gets entry i of the N-level rainbow table, so the
\* colours of one build are pairwise distinct.
C6_DistinctColors ==
    pc \in AfterColors =>
        \A i, j \in 1..Len(kingdom_gdf) :
            /\ kingdom_gdf[i].color = RainbowHex[Len(kingdom_gdf)][i]
            /\ i # j => kingdom_gdf[i].color # kingdom_gdf[j].color

\* C7: in a non-empty settlement layer with populations between lo and hi,
\* hi > lo gives radius 5 + 10 * (p - lo) / (hi - lo), so lo maps to 5, hi
\* to 15 and every radius lies in [5, 15]; hi = lo gives radius 10.
C7_RadiusScale ==
    \A n \in 1..Len(m.layers) :
        LET items == m.layers[n].items
            pops == {items[k].popup.population : k \in 1..Len(items)}
            lo == CHOOSE p \in pops : \A q \in pops : p <= q
            hi == CHOOSE p \in pops : \A q \in pops : p >= q
        IN (m.layers[n].kind = "FeatureGroup" /\ items # <<>>) =>
              \A k \in 1..Len(items) :
                  LET p == items[k].popup.population
                      r == items[k].radius
                  IN IF hi > lo
                     THEN /\ r.num * (hi - lo) = r.den * (5 * (hi - lo) + 10 * (p - lo))
                          /\ p = lo => r = [num |-> 5, den |-> 1]
                          /\ p = hi => r = [num |-> 15, den |-> 1]
                          /\ 5 * r.den <= r.num /\ r.num <= 15 * r.den
                     ELSE r = [num |-> 10, den |-> 1]
\* a settlement layer with a radius strictly between 5 and 15
C7_Witness ==
    \E n \in 1..Len(m.layers) :
        /\ m.layers[n].kind = "FeatureGroup"
        /\ Len(m.layers[n].items) >= 3
        /\ \E k \in 1..Len(m.layers[n].items) :
              LET r == m.layers[n].items[k].radius
              IN 5 * r.den < r.num /\ r.num < 15 * r.den

\* what a popup must show for a summary: the placeholder for a missing or
\* empty one, else the summary
ShownSummary(v) == IF v.null \/ v.text = "" THEN Placeholder ELSE v.text
\* the frame a layer is drawn from
FrameOf(kind) ==
    CASE kind = "GeoJson" -> kingdom_gdf
      [] kind = "MarkerCluster" -> location_gdf
      [] kind = "FeatureGroup" -> houses_gdf
      [] OTHER -> <<>>
\* C8: every popup of a location marker, a settlement circle and a kingdom
\* polygon shows the placeholder when the record's summary is missing or
\* empty, and the summary otherwise.
C8_PlaceholderInEveryPopup ==
    \A n \in 1..Len(m.layers) :
        \A k \in 1..Len(m.layers[n].items) :
            m.layers[n].items[k].popup.summary =
                ShownSummary(FrameOf(m.layers[n].kind)[k].summary)

\* C9: two builds whose settlement query returned the same number of rows
\* assigned the same populations.
C9_SamePopulations ==
    \A a, b \in drawn : a.size = b.size => a.values = b.values
\* a first and a later build, each with at least two settlements
C9_Witness ==
    \E a, b \in drawn :
        a.build = 1 /\ b.build = 2 /\ a.size = b.size /\ a.size >= 2

\* the values the population draw can return
PopulationRange == DrawRange(PopLow, PopHigh)
\* C10 as stated: every population lies in 100..5000 and, where the build
\* draws, both 100 and 5000 can be drawn.
C10_Original ==
    /\ \A d \in drawn : \A k \in 1..Len(d.values) : d.values[k] \in 100..5000
    /\ pc = "population" => 100 \in PopulationRange /\ 5000 \in PopulationRange
\* C10 amended: every population lies in 100..4999 and, where the build
\* draws, the values that can be drawn are exactly 100..4999: 100 and 4999
\* can be drawn, 5000 cannot.
C10_HalfOpenRange ==
    /\ \A d \in drawn : \A k \in 1..Len(d.values) : d.values[k] \in 100..4999
    /\ pc = "population" => PopulationRange = 100..4999
\* a build that drew at least three populations
C10_Witness == \E d \in drawn : d.size >= 3

\* the lookup tables of the two scripts, as functions on their keys
SameinadColors ==
    [t \in {"Castle", "City", "Fortress", "Keep"} |->
        CASE t = "Castle" -> "red" [] t = "City" -> "blue"
          [] t = "Fortress" -> "green" [] OTHER -> "orange"]
SameinadIcons ==
    [t \in {"Castle", "City", "Fortress", "Keep"} |->
        CASE t = "Castle" -> "shield-alt" [] t = "City" -> "building"
          [] t = "Fortress" -> "archway" [] OTHER -> "home"]
MapIcons ==
    [t \in {"Castle", "City", "Landmark", "Region", "Ruin", "Town"} |->
        CASE t = "Castle" -> "fa-fort-awesome" [] t = "City" -> "fa-building"
          [] t = "Landmark" -> "fa-map-pin" [] t = "Region" -> "fa-globe"
          [] t = "Ruin" -> "fa-university" [] OTHER -> "fa-home"]
\* table[key] when the key is present, else the default
Lookup(table, key, default) ==
    IF key \in DOMAIN table THEN table[key] ELSE default
\* the keys of a script's icon table
IconKeys(script) ==
    IF script = "map" THEN DOMAIN MapIcons ELSE DOMAIN SameinadIcons
\* the marker clusters of the map under construction, each with one marker
\* per row of the location frame
OneMarkerPerLocation ==
    \A n \in 1..Len(m.layers) :
        m.layers[n].kind = "MarkerCluster" =>
            /\ Len(m.layers[n].items) = Len(location_gdf)
            /\ \A k \in 1..Len(location_gdf) :
                  /\ m.layers[n].items[k].name = location_gdf[k].name
                  /\ m.layers[n].items[k].popup.type = location_gdf[k].type
\* C11 as stated: every location row has its marker, and a marker whose type
\* is not a key of the script's lookup table has the icon 'info-circle' and
\* the colour 'gray'.
C11_Original ==
    /\ OneMarkerPerLocation
    /\ \A n \in 1..Len(m.layers) :
          m.layers[n].kind = "MarkerCluster" =>
              \A k \in 1..Len(m.layers[n].items) :
                  LET mk == m.layers[n].items[k]
                  IN mk.popup.type \notin IconKeys(app) =>
                        mk.icon = "info-circle" /\ mk.color = "gray"
\* C11 amended: every location row has its marker, whatever its type. In
\* sameinad.py the marker has the icon and the colour its type is mapped to,
\* and 'info-circle' and 'gray' when the type is in neither table; in map.py
\* it has the icon its type is mapped to, 'fa-info-circle' when the type is
\* not in the table, and the colour 'blue' for every type.
C11_MarkerStyleByScript ==
    /\ OneMarkerPerLocation
    /\ \A n \in 1..Len(m.layers) :
          m.layers[n].kind = "MarkerCluster" =>
              \A k \in 1..Len(m.layers[n].items) :
                  LET mk == m.layers[n].items[k]
                      type == mk.popup.type
                  IN IF app = "sameinad"
                     THEN /\ mk.icon = Lookup(SameinadIcons, type, "info-circle")
                          /\ mk.color = Lookup(SameinadColors, type, "gray")
                     ELSE /\ mk.icon = Lookup(MapIcons, type, "fa-info-circle")
                          /\ mk.color = "blue"
\* a returned sameinad.py map whose cluster holds a marker of a mapped type
\* and a gray 'info-circle' marker of a type in neither table
C11_Witness ==
    /\ app = "sameinad"
    /\ output.kind = "html"
    /\ \E n \in 1..Len(m.layers) :
          /\ m.layers[n].kind = "MarkerCluster"
          /\ \E j, k \in 1..Len(m.layers[n].items) :
                /\ m.layers[n].items[j].popup.type \in DOMAIN SameinadIcons
                /\ m.layers[n].items[j].color = "red"
                /\ m.layers[n].items[k].popup.type \notin DOMAIN SameinadIcons
                /\ m.layers[n].items[k].icon = "info-circle"
                /\ m.layers[n].items[k].color = "gray"

\* a frame holds a geometry text that wkt.loads rejects
HasMalformed(rows) == \E k \in 1..Len(rows) : ~wkt_loads(rows[k].geom_wkt).ok
\* every row of a frame carries a parsed geometry
AllParsed(rows) == \A k \in 1..Len(rows) : rows[k].geometry.ok
\* C12: when any of the three query results holds a malformed geometry text,
\* the conversion step aborts the build with the parse error as its outcome
\* and no map; the build goes on only when every text parsed, with every
\* record kept.
C12_MalformedWktAborts ==
    [][pc = "parse" =>
        IF HasMalformed(location_gdf) \/ HasMalformed(kingdom_gdf)
              \/ HasMalformed(houses_gdf)
        THEN /\ output'.kind = "error"
             /\ output'.error \in WktErrors
             /\ output'.map = NoMap
             /\ pc' = "idle"
             /\ m' = NoMap
        ELSE /\ pc' = "population"
             /\ output' = output
             /\ Len(location_gdf') = Len(location_gdf) /\ AllParsed(location_gdf')
             /\ Len(kingdom_gdf') = Len(kingdom_gdf) /\ AllParsed(kingdom_gdf')
             /\ Len(houses_gdf') = Len(houses_gdf) /\ AllParsed(houses_gdf')]_vars
\* a build aborted by a malformed kingdom geometry among well-formed
\* location and settlement geometries
C12_Witness ==
    /\ pc = "idle"
    /\ output = Raised("GEOSException")
    /\ m = NoMap
    /\ HasMalformed(kingdom_gdf)
    /\ Len(location_gdf) > 0 /\ ~HasMalformed(location_gdf)
    /\ Len(houses_gdf) > 0 /\ ~HasMalformed(houses_gdf)

\* the map a script assembles from one snapshot of the tables and one
\* selection, written as a function of these alone
BuiltMap(script, location_rows, kingdom_rows, settlement_rows, F) ==
    LET locations == WithGeometry(location_rows)
        settlements == WithGeometry(settlement_rows)
        populations == randint(PopLow, PopHigh, Len(settlements),
                               np_random_seed(MapSeed)).values
        houses == WithPopulation(settlements, populations)
        every == WithGeometry(kingdom_rows)
        kept == IF script = "sameinad" /\ F # {}
                THEN SelectSeq(every, LAMBDA r : r.name \in F)
                ELSE every
        kingdoms == AssignColors(kept, script)
        tiles == Layer("TileLayer", "CartoDB", <<>>)
        polygons == Layer("GeoJson", "Kingdoms",
                        [k \in 1..Len(kingdoms) |-> KingdomFeature(script, kingdoms[k])])
        cluster == Layer("MarkerCluster", "Locations",
                        [k \in 1..Len(locations) |-> LocationMarker(script, locations[k])])
        circles == Layer("FeatureGroup", "Houses",
                        [k \in 1..Len(houses) |->
                            HouseMarker(houses[k], SeriesMin(houses), SeriesMax(houses))])
        control == Layer("LayerControl", "", <<>>)
    IN [location |-> MapLocation(CenterOf(script, kingdoms, locations)),
        layers |-> IF script = "sameinad"
                   THEN <<tiles, polygons, cluster, circles, control>>
                   ELSE <<tiles, cluster, polygons, circles, control>>]
\* the columns the queries select
LocationColumns == {"gid", "name", "type", "summary", "geom_wkt"}
KingdomColumns == {"gid", "name", "claimedby", "summary", "geom_wkt"}
\* the rows of a frame as its query returned them: without the columns the
\* build has added since
AsQueried(rows, columns) ==
    [k \in 1..Len(rows) |-> [f \in columns |-> rows[k][f]]]
\* C13: each of the three queries of an invocation returns the rows of its
\* table as they are when the statement runs, and the map an invocation is
\* about to return is the map assembled from the results of its own three
\* queries and from its selection, and from nothing else: not from an
\* earlier invocation's frames or map, nor from the state an earlier use left
\* in the random generator; so a change of the tables between two
\* invocations shows in the second map. The fragment handed out is that map.
C13_MapFromOwnQueries ==
    [][/\ (pc = "query_locations" /\ pc' = "query_kingdoms") =>
              location_gdf' = db.locations
       /\ (pc = "query_kingdoms" /\ pc' = "query_houses") =>
              kingdom_gdf' = db.kingdoms
       /\ (pc = "query_houses" /\ pc' = "parse") =>
              houses_gdf' = SelectSeq(db.locations, IsSettlement)
       /\ pc' = "return" =>
              m' = BuiltMap(app, AsQueried(location_gdf', LocationColumns),
                            AsQueried(kingdom_gdf', KingdomColumns),
                            AsQueried(houses_gdf', LocationColumns),
                            selected_kingdoms')
       /\ (pc' = "idle" /\ output'.kind = "html") => output'.map = m']_vars
\* an invocation about to return whose settlement query ran after another
\* client changed the locations table that its location query had read, so
\* that its settlements are not the castles and cities among its locations,
\* where an earlier invocation had drawn populations for more settlements
C13_Witness ==
    /\ pc = "return"
    /\ db.version > 0
    /\ Len(houses_gdf) > 0
    /\ Gids(houses_gdf) # Gids(SelectSeq(location_gdf, IsSettlement))
    /\ \E d \in drawn : d.build = 1 /\ d.size > Len(houses_gdf)
    /\ Len(LayersOfKind(m, "GeoJson")[1].items) > 0

\* C14: in a build whose settlement query returned no rows, the population
\* step draws nothing, the Kingdoms layer is added, the Houses layer is added
\* with no circle marker and so no radius, the layer control is added after
\* it, and the map is returned with all five layers; none of these steps
\* ends in an error. The code does not do this when the kingdom frame has no
\* row either: both scripts raise at the Kingdoms layer or when the map is
\* rendered.
C14_EmptySettlementLayer ==
    [][(houses_gdf = <<>> /\
            pc \in {"population", "kingdoms", "houses", "control", "return"}) =>
        /\ output'.kind # "error"
        /\ pc = "population" =>
              /\ houses_gdf' = <<>>
              /\ pc' \in {"filter", "colors"}
        /\ pc = "kingdoms" =>
              /\ Len(m'.layers) = Len(m.layers) + 1
              /\ m'.layers[Len(m'.layers)].kind = "GeoJson"
        /\ pc = "houses" =>
              /\ m'.layers = Append(m.layers, Layer("FeatureGroup", "Houses", <<>>))
              /\ pc' = "control"
        /\ pc = "control" =>
              /\ m'.layers = Append(m.layers, Layer("LayerControl", "", <<>>))
              /\ pc' = "return"
        /\ pc = "return" =>
              /\ output' = Html(m)
              /\ Len(m.layers) = 5
              /\ LayersOfKind(m, "FeatureGroup") = <<Layer("FeatureGroup", "Houses", <<>>)>>
              /\ Len(LayersOfKind(m, "GeoJson")) = 1
              /\ Len(LayersOfKind(m, "MarkerCluster")) = 1
              /\ m.layers[5].kind = "LayerControl"]_vars

\* C15: whatever the selection (none, some of the kingdoms, or names that
\* match no kingdom), the location frame and the settlement frame of a build
\* past the filter are those of a build with no selection, the marker
\* cluster holds one marker per row of atlas.locations and the Houses layer
\* one circle marker per Castle or City row, both layers are the layers of
\* the build with no selection (same markers, populations, radii), and the
\* build of sameinad.py over a kingdoms table with rows adds its Kingdoms
\* layer and returns the map that holds them. The code does not return a map for a selection that matches
\* no kingdom: the build raises at the Kingdoms layer or at the rendering.
C15_FilterLeavesMarkerLayers ==
    /\ [](LET settlements == SelectSeq(db.locations, IsSettlement)
              unfiltered == BuiltMap(app, db.locations, db.kingdoms, settlements, {})
          IN /\ pc \in AfterFilter =>
                   /\ Gids(location_gdf) = Gids(db.locations)
                   /\ Gids(houses_gdf) = Gids(settlements)
                   /\ [k \in 1..Len(houses_gdf) |-> houses_gdf[k].population] =
                          randint(PopLow, PopHigh, Len(settlements),
                                  np_random_seed(MapSeed)).values
             /\ pc \in AfterCenter =>
                   \A n \in 1..Len(m.layers) :
                       /\ m.layers[n].kind = "MarkerCluster" =>
                             /\ Len(m.layers[n].items) = Len(db.locations)
                             /\ <<m.layers[n]>> = LayersOfKind(unfiltered, "MarkerCluster")
                       /\ m.layers[n].kind = "FeatureGroup" =>
                             /\ Len(m.layers[n].items) = Len(settlements)
                             /\ <<m.layers[n]>> = LayersOfKind(unfiltered, "FeatureGroup"))
    /\ [][(app = "sameinad" /\ Len(db.kingdoms) > 0) =>
             /\ pc = "kingdoms" =>
                   /\ output'.kind # "error"
                   /\ pc' = "locations"
             /\ pc = "return" =>
                   /\ output' = Html(m)
                   /\ Len(LayersOfKind(m, "MarkerCluster")) = 1
                   /\ Len(LayersOfKind(m, "FeatureGroup")) = 1]_vars

\* the rows of a table a chart must show for a selection
ShownRows(table, column, selected) ==
    IF selected = {} THEN table
    ELSE SelectSeq(table, LAMBDA r : r[column] \in selected)
\* C16: in sameinad.py, whenever no handler is running, the three
\* module-level tables are the tables loaded with the module, whatever charts
\* and maps have been rendered; the chart last rendered shows exactly the
\* rows of its table whose kingdom is selected, and every row of the table as
\* loaded when nothing is selected.
C16_ChartsLeaveTables ==
    (app = "sameinad" /\ pc = "idle") =>
        LET loaded_counts == HouseCounts(fetch_houses_and_kingdoms(db.houses))
            loaded_area == AreaFrame(db.kingdoms)
        IN /\ house_counts = loaded_counts
           /\ df_population =
                 PopulationFrame(db, InGroupOrder(KingdomOrder, db.group_order))
           /\ df_area = loaded_area
           /\ chart.name = "house_count_plot" =>
                 chart.rows = ShownRows(loaded_counts, "KingdomName", chart.selection)
           /\ chart.name = "population_plot" =>
                 chart.rows = ShownRows(df_population, "kingdom", chart.selection)
           /\ chart.name = "area_plot" =>
                 chart.rows = ShownRows(loaded_area, "kingdom", chart.selection)
\* an area chart for the selection The North that shows the two rows of that
\* kingdom (The North and The Neck) out of a larger table, after a map has
\* been returned
C16_Witness ==
    /\ app = "sameinad"
    /\ output.kind = "html"
    /\ chart.name = "area_plot"
    /\ chart.selection = {"The North"}
    /\ Len(chart.rows) = 2
    /\ Len(df_area) > 2
====
